---- MODULE Spec2Model ----
(***************************************************************************)
(* A model of appimage2rpm's packaged core (src/src/appimage2rpm/core):    *)
(* the name sanitizer and icon selection of RPMBuilder, the icon scan of   *)
(* AppImageExtractor, and the conversion pipeline of                       *)
(* AppImage2RPMController.convert_appimage.                                *)
(*                                                                         *)
(* Strings the code inspects character by character (names, paths) are     *)
(* sequences of one-character strings.                                     *)
(***************************************************************************)
EXTENDS Integers, Sequences, FiniteSets, TLC

VARIABLES
    pc,             \* control point of the operation under way
    name,           \* _sanitize_name: its argument
    rpm_name,       \* RPMBuilder.rpm_name = _sanitize_name(name)
    rpm_name2,      \* _sanitize_name applied to rpm_name
    raised,         \* the exception an operation raised, "none" if none
    icon_paths,     \* RPMBuilder.icon_paths: the candidates, in list order
    selected_icon,  \* RPMBuilder.selected_icon (NoIcon for None)
    selected_icon_ext,  \* RPMBuilder.selected_icon_ext
    walk,           \* the files of the extracted tree, in os.walk order
    desktop_entry,  \* the keys of [Desktop Entry] in the tree's .desktop file
    extractor,      \* the AppImageExtractor: temp_dir, extracted_dir, metadata
    args,           \* the arguments of the convert_appimage call under way
    profile_manager,    \* controller.profile_manager: which class provides it
    profile,        \* convert_appimage: the profile get_profile returned
    metadata,       \* convert_appimage: its local metadata dictionary
    disk,           \* the temporary directories that exist on disk
    package_dependencies,   \* DependencyAnalyzer: the packages it detected
    builder,        \* the RPMBuilder convert_appimage constructed
    rpm_path,       \* convert_appimage: what builder.build returned
    result,         \* what convert_appimage returned
    progress,       \* the percentages progress_callback was called with
    analyzer,       \* the DependencyAnalyzer: system_libs, detected_libs, dependencies
    macros_file,    \* convert_appimage: what create_rpm_macros returned
    call,           \* the arguments of the function under way
    ret             \* what the function under way returned

sanVars == <<name, rpm_name, rpm_name2>>
iconVars == <<icon_paths, selected_icon, selected_icon_ext>>
treeVars == <<walk, desktop_entry>>

ctlVars ==
    <<args, profile_manager, profile, metadata, disk, package_dependencies,
      builder, rpm_path, result, progress, analyzer, macros_file>>
callVars == <<call, ret>>

vars == <<pc, raised, sanVars, iconVars, treeVars, extractor, ctlVars, callVars>>

(***************************************************************************)
(* Bounds of the model.                                                    *)
(***************************************************************************)
MaxNameLen == 4
MaxIcons == 3
MaxTreeFiles == 3

(***************************************************************************)
(* Characters and strings.                                                 *)
(***************************************************************************)
Digits == {"0", "1", "2", "3", "4", "5", "6", "7", "8", "9"}

LowerLetters ==
    {"a", "b", "c", "d", "e", "f", "g", "h", "i", "j", "k", "l", "m",
     "n", "o", "p", "q", "r", "s", "t", "u", "v", "w", "x", "y", "z"}

UpperLetters ==
    {"A", "B", "C", "D", "E", "F", "G", "H", "I", "J", "K", "L", "M",
     "N", "O", "P", "Q", "R", "S", "T", "U", "V", "W", "X", "Y", "Z"}

\* str.lower() on one character
LowerChar(c) ==
    CASE c = "A" -> "a" [] c = "B" -> "b" [] c = "C" -> "c" [] c = "D" -> "d"
      [] c = "E" -> "e" [] c = "F" -> "f" [] c = "G" -> "g" [] c = "H" -> "h"
      [] c = "I" -> "i" [] c = "J" -> "j" [] c = "K" -> "k" [] c = "L" -> "l"
      [] c = "M" -> "m" [] c = "N" -> "n" [] c = "O" -> "o" [] c = "P" -> "p"
      [] c = "Q" -> "q" [] c = "R" -> "r" [] c = "S" -> "s" [] c = "T" -> "t"
      [] c = "U" -> "u" [] c = "V" -> "v" [] c = "W" -> "w" [] c = "X" -> "x"
      [] c = "Y" -> "y" [] c = "Z" -> "z" [] OTHER -> c

\* str.lower()
Lower(s) == [i \in 1..Len(s) |-> LowerChar(s[i])]

\* str.startswith / str.endswith
StartsWith(s, p) == Len(p) <= Len(s) /\ SubSeq(s, 1, Len(p)) = p

EndsWith(s, p) == Len(p) <= Len(s) /\ SubSeq(s, Len(s) - Len(p) + 1, Len(s)) = p

\* All strings over alphabet A of length lo..hi
Strings(A, lo, hi) == UNION {[1..n -> A] : n \in lo..hi}

\* None, where the code has an Optional[Path]
NoIcon == <<>>

\* The parts of the state an operation does not touch, at rest.
SanIdle == name = <<>> /\ rpm_name = <<>> /\ rpm_name2 = <<>>

IconIdle == icon_paths = <<>> /\ selected_icon = NoIcon /\ selected_icon_ext = <<>>

\* a mapping with no key (an empty dict)
EmptyDict == [k \in {} |-> <<>>]

\* the extractor as __init__ leaves it (extractor.py 51-53)
NewExtractor == [temp_dir |-> <<>>, extracted_dir |-> <<>>, metadata |-> EmptyDict]

TreeIdle == walk = <<>> /\ desktop_entry = EmptyDict

ExtractorIdle == extractor = NewExtractor

\* the controller as __init__ leaves it, no call under way
CtlIdle ==
    /\ args = EmptyDict
    /\ profile_manager = "DistroProfileManager"
    /\ profile = EmptyDict
    /\ metadata = EmptyDict
    /\ disk = {}
    /\ package_dependencies = <<>>
    /\ builder = EmptyDict
    /\ rpm_path = <<>>
    /\ result = EmptyDict
    /\ progress = <<>>
    /\ analyzer = EmptyDict
    /\ macros_file = <<>>

\* no function under way
CallIdle == call = EmptyDict /\ ret = <<>>

(***************************************************************************)
(* RPMBuilder._sanitize_name (builder.py 534-551).                         *)
(***************************************************************************)
\* the characters the pattern [^a-zA-Z0-9_.-] leaves alone
SanitizeKept == LowerLetters \cup UpperLetters \cup Digits \cup {"_", ".", "-"}

\* one character through the pattern [^a-zA-Z0-9_.-] and its replacement '-'
SubChar(c) == IF c \in SanitizeKept THEN c ELSE "-"

\* collapse runs of '-' and trim them at both ends
RECURSIVE Collapse(_)
Collapse(s) ==
    IF s = <<>> THEN <<>>
    ELSE IF Head(s) = "-" /\ (Len(s) = 1 \/ s[2] = "-") THEN Collapse(Tail(s))
    ELSE <<Head(s)>> \o Collapse(Tail(s))

RECURSIVE TrimLeft(_)
TrimLeft(s) == IF s # <<>> /\ Head(s) = "-" THEN TrimLeft(Tail(s)) ELSE s

\* a substitution that also collapses and trims the '-' it produced
SubInvalid_collapsing(s) ==
    LET t == TrimLeft(Collapse([i \in 1..Len(s) |-> SubChar(s[i])]))
    IN  IF t = <<>> THEN <<"-">> ELSE t

\* re.sub(r'[^a-zA-Z0-9_.-]', '-', name)
SubInvalid(s) == [i \in 1..Len(s) |-> SubChar(s[i])]

AppPrefix == <<"a", "p", "p", "-">>

\* the same test made on the argument instead of the substituted string
NeedsPrefix_raw(original, sanitized) == original[1] \in Digits \cup {"-"}

\* the test for a leading digit alone
NeedsPrefix_digit(original, sanitized) == sanitized[1] \in Digits

\* sanitized[0].isdigit() or sanitized[0] == '-'
NeedsPrefix(original, sanitized) == sanitized[1] \in Digits \cup {"-"}

\* The argument is not empty: sanitized[0] of an empty string is an IndexError.
_sanitize_name(s) ==
    LET sanitized == SubInvalid(s)
        prefixed  == IF NeedsPrefix(s, sanitized) THEN AppPrefix \o sanitized
                     ELSE sanitized
    IN  Lower(prefixed)

(***************************************************************************)
(* SpecSanitize: the sanitizer applied to every name up to MaxNameLen,     *)
(* and applied again to its own result.                                    *)
(***************************************************************************)
NameChars == {"A", "p", "1", "-", "+", " ", ".", "_"}

SanitizeInit ==
    /\ pc = "sanitize"
    /\ name \in Strings(NameChars, 0, MaxNameLen)
    /\ rpm_name = <<>>
    /\ rpm_name2 = <<>>
    /\ raised = "none"
    /\ IconIdle /\ TreeIdle /\ ExtractorIdle /\ CtlIdle /\ CallIdle

\* rpm_name = self._sanitize_name(app_name)
SanitizeName ==
    /\ pc = "sanitize"
    /\ IF name = <<>>
       THEN /\ raised' = "IndexError"
            /\ pc' = "raised"
            /\ UNCHANGED rpm_name
       ELSE /\ rpm_name' = _sanitize_name(name)
            /\ pc' = "sanitized"
            /\ UNCHANGED raised
    /\ UNCHANGED <<name, rpm_name2, iconVars, treeVars, extractor, ctlVars>>
    /\ UNCHANGED callVars

\* the sanitizer on a name that is already a sanitized one
SanitizeAgain ==
    /\ pc = "sanitized"
    /\ rpm_name2' = _sanitize_name(rpm_name)
    /\ pc' = "twice"
    /\ UNCHANGED <<name, rpm_name, raised, iconVars, treeVars, extractor, ctlVars>>
    /\ UNCHANGED callVars

SanitizeNext == SanitizeName \/ SanitizeAgain

SpecSanitize == SanitizeInit /\ [][SanitizeNext]_vars

(***************************************************************************)
(* Claims about the sanitizer (checked under SpecSanitize).                *)
(***************************************************************************)
Sanitized == pc \in {"sanitized", "twice"}

n_1App == <<"1", "A", "p", "p">>
n_dashApp == <<"-", "A", "p", "p">>

\* C6: name sanitization is idempotent: sanitizing an already sanitized
\* (non-empty) name gives that name again.
C6_SanitizeIdempotent == pc = "twice" => rpm_name2 = rpm_name

C6_Witness ==
    /\ pc = "twice"
    /\ name = n_1App
    /\ rpm_name2 = <<"a", "p", "p", "-", "1", "a", "p", "p">>

\* C7: the sanitized name of a non-empty name holds only lowercase letters,
\* digits, '.', '_', '+' and '-', and begins neither with a digit nor with
\* '-': a name whose first character is a digit, a '-' or a replaced
\* character gets the prefix 'app-' ("1App" gives "app-1app", "-App" gives
\* "app--app").
C7_SanitizedCharset ==
    Sanitized =>
        /\ \A i \in 1..Len(rpm_name) :
              rpm_name[i] \in LowerLetters \cup Digits \cup {".", "_", "+", "-"}
        /\ rpm_name[1] \notin Digits \cup {"-"}
        /\ (name[1] \in Digits \cup {"-"} \/ name[1] \notin SanitizeKept)
              => /\ StartsWith(rpm_name, AppPrefix)
                 /\ Len(rpm_name) = Len(name) + 4
        /\ name = n_1App => rpm_name = <<"a", "p", "p", "-", "1", "a", "p", "p">>
        /\ name = n_dashApp => rpm_name = <<"a", "p", "p", "-", "-", "a", "p", "p">>

C7_Witness ==
    /\ pc = "sanitized"
    /\ name = n_dashApp
    /\ rpm_name = <<"a", "p", "p", "-", "-", "a", "p", "p">>

\* C8 as stated: the sanitized name has no two consecutive '-', does not
\* end with '-', and a '+' of the input is still a '+' in the output.
C8_Original ==
    Sanitized =>
        /\ \A i \in 1..(Len(rpm_name) - 1) : ~(rpm_name[i] = "-" /\ rpm_name[i + 1] = "-")
        /\ rpm_name[Len(rpm_name)] # "-"
        /\ (\E i \in 1..Len(name) : name[i] = "+")
              => \E j \in 1..Len(rpm_name) : rpm_name[j] = "+"

\* C8 amended: the sanitizer maps the name character by character, a
\* character of [a-zA-Z0-9._-] to its lowercase and any other character
\* ('+' included) to '-', collapsing and trimming nothing; the only other
\* change is the prefix 'app-'.
C8_CharByChar ==
    Sanitized =>
        LET n    == Len(name)
            body == IF Len(rpm_name) = n THEN rpm_name
                    ELSE SubSeq(rpm_name, 5, Len(rpm_name))
        IN  /\ Len(rpm_name) \in {n, n + 4}
            /\ Len(rpm_name) = n + 4 => SubSeq(rpm_name, 1, 4) = AppPrefix
            /\ Len(body) = n
            /\ \A i \in 1..n :
                  body[i] = IF name[i] \in SanitizeKept THEN LowerChar(name[i]) ELSE "-"

C8_Witness ==
    /\ pc = "sanitized"
    /\ name = <<"A", " ", " ", "+">>
    /\ rpm_name = <<"a", "-", "-", "-">>

(***************************************************************************)
(* Paths (pathlib.Path as the string the code reads).                      *)
(***************************************************************************)
\* the positions of character c in s
Positions(s, c) == {i \in 1..Len(s) : s[i] = c}

Max(S) == CHOOSE x \in S : \A y \in S : y <= x

Min(S) == CHOOSE x \in S : \A y \in S : x <= y

\* Path.name: the final component
Basename(p) ==
    IF Positions(p, "/") = {} THEN p
    ELSE SubSeq(p, Max(Positions(p, "/")) + 1, Len(p))

\* Path.suffix: the final component from its last '.', empty when that '.'
\* is its first or its last character or when it has none
PathSuffix(p) ==
    LET nm == Basename(p)
        dots == Positions(nm, ".")
    IN  IF dots = {} THEN <<>>
        ELSE IF Max(dots) = 1 \/ Max(dots) = Len(nm) THEN <<>>
        ELSE SubSeq(nm, Max(dots), Len(nm))

\* Path.stem: the final component without its suffix
PathStem(p) ==
    LET nm == Basename(p)
    IN  SubSeq(nm, 1, Len(nm) - Len(PathSuffix(p)))

DigitVal(c) ==
    CASE c = "0" -> 0 [] c = "1" -> 1 [] c = "2" -> 2 [] c = "3" -> 3
      [] c = "4" -> 4 [] c = "5" -> 5 [] c = "6" -> 6 [] c = "7" -> 7
      [] c = "8" -> 8 [] c = "9" -> 9

\* int() of a string of decimal digits
RECURSIVE ParseInt(_)
ParseInt(ds) ==
    IF ds = <<>> THEN 0
    ELSE 10 * ParseInt(SubSeq(ds, 1, Len(ds) - 1)) + DigitVal(ds[Len(ds)])

\* the end of the run of digits that starts at position i of s
RECURSIVE DigitRunEnd(_, _)
DigitRunEnd(s, i) ==
    IF i < Len(s) /\ s[i + 1] \in Digits THEN DigitRunEnd(s, i + 1) ELSE i

\* the positions where re.search(r'(\d+)x\d+', s) can start a match
SizeMatchStarts(s) ==
    {i \in 1..Len(s) :
        /\ s[i] \in Digits
        /\ LET j == DigitRunEnd(s, i)
           IN  /\ j + 2 <= Len(s)
               /\ s[j + 1] = "x"
               /\ s[j + 2] \in Digits}

\* the size a PNG counts with when its path shows none
DefaultPngSize == 48

\* the size select_best_icon reads from a path: group 1 of the leftmost
\* match of (\d+)x\d+ in str(icon), 48 when there is none
PngSize(p) ==
    IF SizeMatchStarts(p) = {} THEN DefaultPngSize
    ELSE LET i == Min(SizeMatchStarts(p))
         IN  ParseInt(SubSeq(p, i, DigitRunEnd(p, i)))

ext_svg == <<".", "s", "v", "g">>
ext_png == <<".", "p", "n", "g">>
ext_xpm == <<".", "x", "p", "m">>

\* p.suffix.lower() == '.svg' / '.png'
IsSvg(p) == Lower(PathSuffix(p)) = ext_svg

IsPng(p) == Lower(PathSuffix(p)) = ext_png

(***************************************************************************)
(* RPMBuilder.select_best_icon (builder.py 85-142).                        *)
(***************************************************************************)
\* whether x goes before y in an ascending order of the size
Before_ascending(x, y) == x[1] < y[1]

\* sorted(..., key=lambda x: -x[0]): x goes before y when its size is larger
Before(x, y) == x[1] > y[1]

\* x put into the sorted list after every element it does not go before:
\* sorted() is stable
RECURSIVE Insert(_, _)
Insert(x, sorted) ==
    IF sorted = <<>> THEN <<x>>
    ELSE IF Before(x, Head(sorted)) THEN <<x>> \o sorted
    ELSE <<Head(sorted)>> \o Insert(x, Tail(sorted))

\* sorted(pairs, key=lambda x: -x[0])
RECURSIVE SortedBySize(_)
SortedBySize(pairs) ==
    IF pairs = <<>> THEN <<>>
    ELSE Insert(pairs[Len(pairs)], SortedBySize(SubSeq(pairs, 1, Len(pairs) - 1)))

\* the (size, icon) pairs of lines 112-119
SizedPngIcons(png_icons) == [i \in 1..Len(png_icons) |-> <<PngSize(png_icons[i]), png_icons[i]>>]

\* the value returned, which is also stored in selected_icon
select_best_icon(paths) ==
    LET svg_icons == SelectSeq(paths, IsSvg)
        png_icons == SelectSeq(paths, IsPng)
    IN  IF paths = <<>> THEN NoIcon
        ELSE IF svg_icons # <<>> THEN svg_icons[1]
        ELSE IF png_icons # <<>> THEN SortedBySize(SizedPngIcons(png_icons))[1][2]
        ELSE paths[1]

\* selected_icon_ext after the call (untouched when there is no candidate)
select_best_icon_ext(paths, old) ==
    IF paths = <<>> THEN old
    ELSE IF SelectSeq(paths, IsSvg) # <<>> THEN ext_svg
    ELSE IF SelectSeq(paths, IsPng) # <<>> THEN ext_png
    ELSE PathSuffix(paths[1])

(***************************************************************************)
(* SpecIcon: select_best_icon on every candidate list of up to MaxIcons    *)
(* paths of IconCatalogue.                                                 *)
(***************************************************************************)
p_svg == <<"a", ".", "s", "v", "g">>
p_SVG == <<"b", ".", "S", "V", "G">>
p_png == <<"a", ".", "p", "n", "g">>
p_png8 == <<"8", "x", "8", "/", "a", ".", "p", "n", "g">>
p_png32 == <<"3", "2", "x", "3", "2", "/", "a", ".", "p", "n", "g">>
p_png32b == <<"3", "2", "x", "3", "2", "/", "b", ".", "p", "n", "g">>
p_png64 == <<"6", "4", "x", "6", "4", "/", "a", ".", "P", "N", "G">>
p_png4in16 == <<"t", "4", "x", "4", "/", "1", "6", "x", "1", "6", "/", "a", ".", "p", "n", "g">>
p_xpm == <<"a", ".", "x", "p", "m">>
p_diricon == <<".", "D", "i", "r", "I", "c", "o", "n">>

IconCatalogue ==
    {p_svg, p_SVG, p_png, p_png8, p_png32, p_png32b, p_png64, p_png4in16,
     p_xpm, p_diricon}

IconInit ==
    /\ pc = "select"
    /\ icon_paths \in Strings(IconCatalogue, 0, MaxIcons)
    /\ selected_icon = NoIcon
    /\ selected_icon_ext = <<>>
    /\ raised = "none"
    /\ SanIdle /\ TreeIdle /\ ExtractorIdle /\ CtlIdle /\ CallIdle

SelectBestIcon ==
    /\ pc = "select"
    /\ selected_icon' = select_best_icon(icon_paths)
    /\ selected_icon_ext' = select_best_icon_ext(icon_paths, selected_icon_ext)
    /\ pc' = "selected"
    /\ UNCHANGED <<icon_paths, raised, sanVars, treeVars, extractor, ctlVars>>
    /\ UNCHANGED callVars

IconNext == SelectBestIcon

SpecIcon == IconInit /\ [][IconNext]_vars

(***************************************************************************)
(* Claims about select_best_icon (checked under SpecIcon).                 *)
(***************************************************************************)
SvgPositions == {i \in 1..Len(icon_paths) : IsSvg(icon_paths[i])}

PngPositions == {i \in 1..Len(icon_paths) : IsPng(icon_paths[i])}

s_squashfs == <<"s", "q", "u", "a", "s", "h", "f", "s", "-", "r", "o", "o", "t">>
s_hicolor == <<"u", "s", "r", "/", "s", "h", "a", "r", "e", "/", "i", "c", "o", "n", "s", "/", "h", "i", "c", "o", "l", "o", "r">>
s_apps == <<"a", "p", "p", "s">>
s_pixmaps == <<"u", "s", "r", "/", "s", "h", "a", "r", "e", "/", "p", "i", "x", "m", "a", "p", "s">>
s_applications == <<"u", "s", "r", "/", "s", "h", "a", "r", "e", "/", "a", "p", "p", "l", "i", "c", "a", "t", "i", "o", "n", "s">>
s_bin == <<"u", "s", "r", "/", "b", "i", "n">>
s_extracted == <<"e", "x", "t", "r", "a", "c", "t", "e", "d">>
s_DirIcon == <<".", "D", "i", "r", "I", "c", "o", "n">>
s_desktop_ext == <<".", "d", "e", "s", "k", "t", "o", "p">>
s_demo == <<"d", "e", "m", "o">>
s_Demo == <<"D", "e", "m", "o">>
s_slash == <<"/">>

\* a temporary directory of tempfile.mkdtemp(prefix="appimage2rpm_")
s_tmp == <<"/", "t", "m", "p", "/", "a", "p", "p", "i", "m", "a", "g", "e", "2", "r", "p", "m", "_", "k", "3", "b", "7", "a", "b", "c", "d">>

\* the directory of a file, below squashfs-root
DirOf(f) ==
    CASE f.loc = "root" -> <<>>
      [] f.loc = "hicolor" -> s_slash \o s_hicolor \o s_slash \o f.sub \o s_slash \o s_apps
      [] f.loc = "pixmaps" -> s_slash \o s_pixmaps
      [] f.loc = "applications" -> s_slash \o s_applications
      [] f.loc = "bin" -> s_slash \o s_bin

\* the Path of file f of the tree extracted under extracted_dir
PathOf(extracted_dir, f) ==
    extracted_dir \o s_slash \o s_squashfs \o DirOf(f) \o s_slash \o f.file

File(loc, sub, file) == [loc |-> loc, sub |-> sub, file |-> file]

SameDir(f, g) == f.loc = g.loc /\ f.sub = g.sub

UnderShare(f) == f.loc \in {"hicolor", "pixmaps", "applications"}

\* The orders in which os.walk and Path.glob can list the files of set T:
\* top down, a directory's own files before those of its subdirectories,
\* every subtree in one piece, siblings in any order.
WalkOrders(T) ==
    {w \in [1..Cardinality(T) -> T] :
        /\ \A i, j \in 1..Cardinality(T) : i # j => w[i] # w[j]
        /\ \A i, j \in 1..Cardinality(T) :
              (i < j /\ w[j].loc = "root") => w[i].loc = "root"
        /\ \A i, j, k \in 1..Cardinality(T) :
              (i < j /\ j < k) =>
                  /\ SameDir(w[i], w[k]) => SameDir(w[i], w[j])
                  /\ (w[i].loc = "hicolor" /\ w[k].loc = "hicolor") => w[j].loc = "hicolor"
                  /\ (UnderShare(w[i]) /\ UnderShare(w[k])) => UnderShare(w[j])}

(***************************************************************************)
(* AppImageExtractor.get_desktop_file and get_icon_files                   *)
(* (extractor.py 118-239).                                                 *)
(***************************************************************************)
IconExts == {ext_png, ext_svg, ext_xpm}

\* file.endswith((".png", ".svg", ".xpm"))
EndsWithIconExt(file) == \E e \in IconExts : EndsWith(file, e)

\* icon_file.suffix.lower() in (".png", ".svg", ".xpm")
HasIconSuffix(file) == Lower(PathSuffix(file)) \in IconExts

\* get_desktop_file: the first file of the walk whose name ends with .desktop
DesktopFiles(w) == {i \in 1..Len(w) : EndsWith(w[i].file, s_desktop_ext)}

HasDesktopFile(w) == DesktopFiles(w) # {}

\* _extract_icon_name_from_desktop: the value of the Icon= line, None (<<>>)
\* when there is no such line
DesktopIconName(w, entry) ==
    IF HasDesktopFile(w) /\ "Icon" \in DOMAIN entry THEN entry.Icon ELSE <<>>

\* hicolor_dir.glob("*x*"): the name of the size directory holds an 'x'
GlobsAsSizeDir(sub) == Positions(sub, "x") # {}

\* size_str.split("x")[0]
BeforeFirstX(sub) == SubSeq(sub, 1, Min(Positions(sub, "x")) - 1)

\* int(...) raises ValueError unless the text is a decimal number
IsDecimal(t) == t # <<>> /\ \A i \in 1..Len(t) : t[i] \in Digits

\* the priorities the discovery rules give
PrioDirIcon == 10
PrioPixmap == 5
PrioNameMatch == 1
PrioDesktopRef == 8

Entry(key, prio, path) == [key |-> key, prio |-> prio, path |-> path]

\* icons[key] = (prio, path): a new key goes last, a key already there
\* keeps its place and takes the new value
DictPut(d, e) ==
    IF \E i \in 1..Len(d) : d[i].key = e.key
    THEN [i \in 1..Len(d) |-> IF d[i].key = e.key THEN e ELSE d[i]]
    ELSE Append(d, e)

RECURSIVE DictPutAll(_, _)
DictPutAll(d, es) ==
    IF es = <<>> THEN d ELSE DictPutAll(DictPut(d, Head(es)), Tail(es))

\* sorted(icons.values(), key=lambda x: -x[0]): the larger priority first
RankKey(e) == e.prio

\* the candidates of the five discovery rules, in the order the code adds them
IconEntries(ex, w, entry) ==
    LET P(f) == PathOf(ex.extracted_dir, f)
        IsDirIcon(f) == f.loc = "root" /\ f.file = s_DirIcon
        InHicolor(f) ==
            /\ f.loc = "hicolor"
            /\ GlobsAsSizeDir(f.sub)
            /\ IsDecimal(BeforeFirstX(f.sub))
            /\ HasIconSuffix(f.file)
        InPixmaps(f) == f.loc = "pixmaps" /\ HasIconSuffix(f.file)
        app_name == IF "name" \in DOMAIN ex.metadata THEN ex.metadata.name ELSE <<>>
        NameMatch(f) ==
            /\ app_name # <<>>
            /\ StartsWith(f.file, app_name) \/ StartsWith(Lower(f.file), Lower(app_name))
            /\ EndsWithIconExt(f.file)
        icon_name == DesktopIconName(w, entry)
        DesktopRef(f) ==
            /\ icon_name # <<>>
            /\ PathStem(f.file) = icon_name \/ Lower(PathStem(f.file)) = Lower(icon_name)
            /\ EndsWithIconExt(f.file)
        r1 == SelectSeq(w, IsDirIcon)
        r2 == SelectSeq(w, InHicolor)
        r3 == SelectSeq(w, InPixmaps)
        r4 == SelectSeq(w, NameMatch)
        r5 == SelectSeq(w, DesktopRef)
    IN  [i \in 1..Len(r1) |-> Entry(<<"DirIcon">>, PrioDirIcon, P(r1[i]))]
        \o [i \in 1..Len(r2) |->
               Entry(<<"hicolor", ParseInt(BeforeFirstX(r2[i].sub)), r2[i].file>>,
                     ParseInt(BeforeFirstX(r2[i].sub)), P(r2[i]))]
        \o [i \in 1..Len(r3) |-> Entry(<<"pixmap", r3[i].file>>, PrioPixmap, P(r3[i]))]
        \o [i \in 1..Len(r4) |-> Entry(<<"name_match", r4[i].file>>, PrioNameMatch, P(r4[i]))]
        \o [i \in 1..Len(r5) |-> Entry(<<"desktop_ref", r5[i].file>>, PrioDesktopRef, P(r5[i]))]

\* the list returned: the values of the dictionary, the larger priority
\* first, equal priorities in insertion order
get_icon_files(ex, w, entry) ==
    LET icons == DictPutAll(<<>>, IconEntries(ex, w, entry))
        sorted_icons == SortedBySize([i \in 1..Len(icons) |-> <<RankKey(icons[i]), icons[i].path>>])
    IN  [i \in 1..Len(sorted_icons) |-> sorted_icons[i][2]]

(***************************************************************************)
(* SpecIconFiles: get_icon_files on every tree of up to MaxTreeFiles icon  *)
(* files of TreeCatalogue, with or without a desktop entry, in every walk  *)
(* order, and on an extractor that has not extracted.                      *)
(***************************************************************************)
sz_16 == <<"1", "6", "x", "1", "6">>
sz_48 == <<"4", "8", "x", "4", "8">>
sz_128 == <<"1", "2", "8", "x", "1", "2", "8">>
sz_scalable == <<"s", "c", "a", "l", "a", "b", "l", "e">>
sz_extra == <<"e", "x", "t", "r", "a">>
fn_png == <<"d", "e", "m", "o", ".", "p", "n", "g">>
fn_svg == <<"d", "e", "m", "o", ".", "s", "v", "g">>
fn_xpm == <<"d", "e", "m", "o", ".", "x", "p", "m">>
fn_desktop == <<"d", "e", "m", "o", ".", "d", "e", "s", "k", "t", "o", "p">>

f_diricon == File("root", <<>>, s_DirIcon)
f_h48_png == File("hicolor", sz_48, fn_png)
f_h128_png == File("hicolor", sz_128, fn_png)
f_h16_svg == File("hicolor", sz_16, fn_svg)
f_hscal_svg == File("hicolor", sz_scalable, fn_svg)
f_hextra_png == File("hicolor", sz_extra, fn_png)
f_pix_xpm == File("pixmaps", <<>>, fn_xpm)
f_pix_svg == File("pixmaps", <<>>, fn_svg)
f_pix_png == File("pixmaps", <<>>, fn_png)
f_desktop == File("applications", <<>>, fn_desktop)
f_bin == File("bin", <<>>, s_demo)

TreeCatalogue ==
    {f_diricon, f_h48_png, f_h128_png, f_h16_svg, f_hscal_svg, f_hextra_png,
     f_pix_xpm, f_pix_svg, f_pix_png}

IconTrees == {T \in SUBSET TreeCatalogue : Cardinality(T) <= MaxTreeFiles}

\* the [Desktop Entry] keys a tree's desktop file can hold
DesktopEntries == {[Name |-> s_Demo, Icon |-> s_demo], [Name |-> s_Demo]}

s_xdir == s_tmp \o s_slash \o s_extracted

Extracted(md) == [temp_dir |-> s_tmp, extracted_dir |-> s_xdir, metadata |-> md]

IconFilesInit ==
    /\ pc = "list"
    /\ raised = "none"
    /\ SanIdle /\ CtlIdle /\ CallIdle
    /\ icon_paths = <<>> /\ selected_icon = NoIcon /\ selected_icon_ext = <<>>
    /\ \/ /\ extractor = NewExtractor
          /\ TreeIdle
       \/ /\ extractor \in {Extracted(EmptyDict), Extracted([name |-> s_Demo])}
          /\ \/ /\ walk \in UNION {WalkOrders(T) : T \in IconTrees}
                /\ desktop_entry = EmptyDict
             \/ /\ walk \in UNION {WalkOrders(T \cup {f_desktop}) : T \in IconTrees}
                /\ desktop_entry \in DesktopEntries

\* icon_paths = extractor.get_icon_files()
GetIconFiles ==
    /\ pc = "list"
    /\ IF extractor.extracted_dir = <<>>
       THEN /\ raised' = "ValueError"
            /\ pc' = "raised"
            /\ UNCHANGED icon_paths
       ELSE /\ icon_paths' = get_icon_files(extractor, walk, desktop_entry)
            /\ pc' = "listed"
            /\ UNCHANGED raised
    /\ UNCHANGED <<selected_icon, selected_icon_ext, sanVars, treeVars, extractor, ctlVars>>
    /\ UNCHANGED callVars

IconFilesNext == GetIconFiles

SpecIconFiles == IconFilesInit /\ [][IconFilesNext]_vars

(***************************************************************************)
(* Claims about get_icon_files (checked under SpecIconFiles).              *)
(***************************************************************************)
\* C10: when the list get_icon_files returns holds an SVG, its first
\* element is an SVG, whatever PNG, XPM or .DirIcon candidates it holds.
C10_SvgFirst ==
    pc = "listed" =>
        ((\E i \in 1..Len(icon_paths) : IsSvg(icon_paths[i])) => IsSvg(icon_paths[1]))

(***************************************************************************)
(* Dictionaries (Python dict) as functions over their keys.                *)
(***************************************************************************)
\* d.get(k, default)
DictGet(d, k, default) == IF k \in DOMAIN d THEN d[k] ELSE default

\* d[k] = v
DictSet(d, k, v) == [x \in DOMAIN d \cup {k} |-> IF x = k THEN v ELSE d[x]]

\* sub in s
Contains(s, sub) ==
    \E i \in 0..(Len(s) - Len(sub)) : SubSeq(s, i + 1, i + Len(sub)) = sub

(***************************************************************************)
(* AppImageExtractor._extract_version_from_filename (extractor.py 380-406):*)
(* group 1 of the leftmost match of the first of four patterns that        *)
(* matches.  The operators below return the position after what they match *)
(* from position j, 0 when they do not match.                              *)
(***************************************************************************)
NoVersion == <<>>

VersionSeps == {"-", "_"}

WordChars == Digits \cup LowerLetters \cup UpperLetters \cup {"_"}

RECURSIVE WordRunEnd(_, _)
WordRunEnd(s, i) ==
    IF i < Len(s) /\ s[i + 1] \in WordChars THEN WordRunEnd(s, i + 1) ELSE i

\* \d+
DigitsFrom(s, j) ==
    IF j >= 1 /\ j <= Len(s) /\ s[j] \in Digits THEN DigitRunEnd(s, j) + 1 ELSE 0

\* \w+
WordFrom(s, j) ==
    IF j >= 1 /\ j <= Len(s) /\ s[j] \in WordChars THEN WordRunEnd(s, j) + 1 ELSE 0

\* a literal character
LitAt(s, j, c) == IF j >= 1 /\ j <= Len(s) /\ s[j] = c THEN j + 1 ELSE 0

\* \d+\.\d+
Dotted2(s, j) == DigitsFrom(s, LitAt(s, DigitsFrom(s, j), "."))

\* \d+\.\d+\.\d+
Dotted3(s, j) == DigitsFrom(s, LitAt(s, Dotted2(s, j), "."))

\* (\d+\.\d+\.\d+(?:-\w+(?:\.\d+)?)?)- from j: the end of group 1, the
\* optional parts taken when the rest still matches
SemverGroupEnd(s, j) ==
    LET k == Dotted3(s, j)
        w == WordFrom(s, LitAt(s, k, "-"))
        a == DigitsFrom(s, LitAt(s, w, "."))
    IN  IF LitAt(s, a, "-") # 0 THEN a
        ELSE IF LitAt(s, w, "-") # 0 THEN w
        ELSE IF LitAt(s, k, "-") # 0 THEN k
        ELSE 0

\* (\d+\.\d+)- from j
TwoPartGroupEnd(s, j) ==
    LET e == Dotted2(s, j) IN IF LitAt(s, e, "-") # 0 THEN e ELSE 0

\* (\d+)- from j
OnePartGroupEnd(s, j) ==
    LET e == DigitsFrom(s, j) IN IF LitAt(s, e, "-") # 0 THEN e ELSE 0

SemverStarts(s) ==
    {i \in 1..Len(s) : s[i] \in VersionSeps /\ SemverGroupEnd(s, i + 1) # 0}

VSemverStarts(s) ==
    {i \in 1..Len(s) :
        s[i] \in VersionSeps /\ LitAt(s, i + 1, "v") # 0 /\ SemverGroupEnd(s, i + 2) # 0}

TwoPartStarts(s) ==
    {i \in 1..Len(s) : s[i] \in VersionSeps /\ TwoPartGroupEnd(s, i + 1) # 0}

OnePartStarts(s) ==
    {i \in 1..Len(s) : s[i] \in VersionSeps /\ OnePartGroupEnd(s, i + 1) # 0}

\* the four patterns tried in the reverse order
_extract_version_bare_first(filename) ==
    IF OnePartStarts(filename) # {}
    THEN LET i == Min(OnePartStarts(filename))
         IN  SubSeq(filename, i + 1, OnePartGroupEnd(filename, i + 1) - 1)
    ELSE IF TwoPartStarts(filename) # {}
    THEN LET i == Min(TwoPartStarts(filename))
         IN  SubSeq(filename, i + 1, TwoPartGroupEnd(filename, i + 1) - 1)
    ELSE IF VSemverStarts(filename) # {}
    THEN LET i == Min(VSemverStarts(filename))
         IN  SubSeq(filename, i + 2, SemverGroupEnd(filename, i + 2) - 1)
    ELSE IF SemverStarts(filename) # {}
    THEN LET i == Min(SemverStarts(filename))
         IN  SubSeq(filename, i + 1, SemverGroupEnd(filename, i + 1) - 1)
    ELSE NoVersion

_extract_version_from_filename(filename) ==
    IF SemverStarts(filename) # {}
    THEN LET i == Min(SemverStarts(filename))
         IN  SubSeq(filename, i + 1, SemverGroupEnd(filename, i + 1) - 1)
    ELSE IF VSemverStarts(filename) # {}
    THEN LET i == Min(VSemverStarts(filename))
         IN  SubSeq(filename, i + 2, SemverGroupEnd(filename, i + 2) - 1)
    ELSE IF TwoPartStarts(filename) # {}
    THEN LET i == Min(TwoPartStarts(filename))
         IN  SubSeq(filename, i + 1, TwoPartGroupEnd(filename, i + 1) - 1)
    ELSE IF OnePartStarts(filename) # {}
    THEN LET i == Min(OnePartStarts(filename))
         IN  SubSeq(filename, i + 1, OnePartGroupEnd(filename, i + 1) - 1)
    ELSE NoVersion

(***************************************************************************)
(* AppImageExtractor.parse_metadata and _parse_desktop_file                *)
(* (extractor.py 265-378).                                                 *)
(***************************************************************************)
s_default_version == <<"1", ".", "0", ".", "0">>
s_default_release == <<"1">>

\* the metadata key a desktop entry key is stored under
DesktopKeyMap ==
    [Name |-> "name", Version |-> "version", Comment |-> "summary",
     Exec |-> "exec", Icon |-> "icon"]

_parse_desktop_file(entry) ==
    LET keys == DOMAIN entry \cap DOMAIN DesktopKeyMap
    IN  [m \in {DesktopKeyMap[k] : k \in keys} |->
            entry[CHOOSE k \in keys : DesktopKeyMap[k] = m]]

\* metadata[k] = v unless metadata holds k already
SetDefault(d, k, v) == IF k \in DOMAIN d THEN d ELSE DictSet(d, k, v)

\* lines 287-291: the version of the file name, when the desktop entry
\* gave none and the file name shows one
SetFilenameVersion(d, version) ==
    IF "version" \notin DOMAIN d /\ version # NoVersion
    THEN DictSet(d, "version", version)
    ELSE d

parse_metadata(appimage_path, w, entry) ==
    SetDefault(
        SetDefault(
            SetDefault(
                SetFilenameVersion(
                    IF HasDesktopFile(w) THEN _parse_desktop_file(entry) ELSE EmptyDict,
                    _extract_version_from_filename(Basename(appimage_path))),
                "name", PathStem(Basename(appimage_path))),
            "version", s_default_version),
        "release", s_default_release)

(***************************************************************************)
(* DistroProfileManager (distro_profile.py 17-119).                        *)
(***************************************************************************)
\* None where a profile id is expected
NoProfileId == <<>>

id_fedora == <<"f", "e", "d", "o", "r", "a">>
id_fedora41 == <<"f", "e", "d", "o", "r", "a", "4", "1">>
id_rhel == <<"r", "h", "e", "l">>
id_centos == <<"c", "e", "n", "t", "o", "s">>
id_ubuntu == <<"u", "b", "u", "n", "t", "u">>
id_bogus == <<"b", "o", "g", "u", "s">>
s_41 == <<"4", "1">>

\* the profile tables _load_profiles can build: the ids of the JSON files
\* in the profile directories
ProfileTables == {{}, {id_fedora}, {id_fedora41}}

\* what /etc/os-release can hold
OsReleases == {EmptyDict, [ID |-> id_fedora, VERSION_ID |-> s_41], [ID |-> id_ubuntu]}

detect_current_distro(profiles, os_release) ==
    IF "ID" \in DOMAIN os_release
    THEN IF os_release.ID \in profiles
         THEN os_release.ID
         ELSE IF "VERSION_ID" \in DOMAIN os_release
                 /\ (os_release.ID \o os_release.VERSION_ID) \in profiles
              THEN os_release.ID \o os_release.VERSION_ID
              ELSE NoProfileId
    ELSE NoProfileId

\* a manager that knows a profile for every id
get_profile_any(profiles, profile_id) == [id |-> profile_id]

\* get_profile: the profile stored under the id, EmptyDict for None
get_profile(profiles, profile_id) ==
    IF profile_id \in profiles THEN [id |-> profile_id] ELSE EmptyDict

\* whether the class of controller.profile_manager defines
\* create_rpm_macros: the DistroProfileManager of the core package does
\* not, a manager that has been given the method does
HasCreateRpmMacros(pm) == pm = "with_create_rpm_macros"

(***************************************************************************)
(* DependencyAnalyzer (dependency_analyzer.py 188-268).                    *)
(***************************************************************************)
\* the distributions analyze_dependencies lists packages for
DependencyKeys == {id_fedora, id_rhel, id_centos}

\* _find_executables: the executable files of the tree
Executables(w) == {i \in 1..Len(w) : w[i].loc = "bin"}

\* _map_lib_to_package returned None
NoPackage == "None"

\* file names of shared libraries, the packages providing them
LibNames == {"libc.so.6", "libfoo.so.1", "libfoo.so.2"}

Packages == {"libfoo", "libbar"}

\* _load_system_libs on the host of the conversion
SystemLibs == {"libc.so.6"}

\* what dnf provides answers for each library
ProvidesTables ==
    {t \in [LibNames -> Packages \cup {NoPackage, "glibc"}] :
        /\ t["libc.so.6"] = "glibc"
        /\ \A l \in LibNames \ {"libc.so.6"} : t[l] \in Packages \cup {NoPackage}}

\* what _scan_executable returned, in the order of the executables
ScanList(scans) ==
    LET idx == DOMAIN scans
        RECURSIVE Build(_)
        Build(rest) ==
            IF rest = {} THEN <<>>
            ELSE LET i == Min(rest) IN <<scans[i]>> \o Build(rest \ {i})
    IN  Build(idx)

\* DependencyAnalyzer.__init__
NewAnalyzer(system_libs) == [system_libs |-> system_libs, dependencies |-> EmptyDict]

_map_lib_to_package(provides, lib_name) == provides[lib_name]

\* every detected library taken as external
AllDetectedLibs(system_libs, scans) == UNION {scans[i] : i \in 1..Len(scans)}

\* all_dependencies - self.system_libs, scans[i] being what _scan_executable
\* returned for the i-th executable
ExternalLibs(system_libs, scans) ==
    (UNION {scans[i] : i \in 1..Len(scans)}) \ system_libs

\* the set package_dependencies of analyze_dependencies
PackageSet(system_libs, scans, provides) ==
    {_map_lib_to_package(provides, lib) : lib \in ExternalLibs(system_libs, scans)}
        \ {NoPackage}

\* list(S) of a set: its elements once each, in an order of the runtime
ListsOf(S) ==
    {q \in [1..Cardinality(S) -> S] : \A x \in S : \E i \in 1..Cardinality(S) : q[i] = x}

\* the dictionary analyze_dependencies stores and returns
Dependencies(packages) == [k \in DependencyKeys |-> packages]

\* DependencyAnalyzer.convert_dependencies_to_rpm_requires of the package
convert_dependencies_to_rpm_requires(dependencies, distro_id) ==
    IF DOMAIN dependencies = {} THEN <<>>
    ELSE IF distro_id \notin DOMAIN dependencies THEN <<>>
    ELSE dependencies[distro_id]

\* DependencyAnalyzer.convert_dependencies_to_rpm_requires of the legacy
\* module src/dependency_utils.py
legacy_convert_dependencies_to_rpm_requires(dependencies, distro) ==
    IF DOMAIN dependencies = {} THEN <<>>
    ELSE IF distro \notin DOMAIN dependencies THEN dependencies[id_fedora]
    ELSE dependencies[distro]

(***************************************************************************)
(* AppImage2RPMController.convert_appimage (controller.py 57-245), one     *)
(* action for each stage; a stage that raises runs the handler of lines    *)
(* 240-245 in the same step.                                               *)
(***************************************************************************)
s_path_demo == <<"/", "h", "o", "m", "e", "/", "u", "/", "D", "e", "m", "o", "-", "2", ".", "1", ".", "0", "-", "x", "8", "6", "_", "6", "4", ".", "A", "p", "p", "I", "m", "a", "g", "e">>
s_path_plain == <<"/", "h", "o", "m", "e", "/", "u", "/", "t", "o", "o", "l", ".", "A", "p", "p", "I", "m", "a", "g", "e">>
s_out == <<"/", "o", "u", "t">>
s_cwd == <<"/", "w", "o", "r", "k">>
s_MyApp == <<"M", "y", " ", "A", "p", "p">>
s_3_0 == <<"3", ".", "0">>
s_2 == <<"2">>
s_2_1_0 == <<"2", ".", "1", ".", "0">>
s_rpm_arch == <<".", "x", "8", "6", "_", "6", "4", ".", "r", "p", "m">>
s_dash == <<"-">>

\* the metadata dictionaries a caller passes
MetadataInputs ==
    {EmptyDict,
     [release |-> s_default_release],
     [name |-> s_MyApp, version |-> s_3_0, release |-> s_2],
     [name |-> s_Demo, version |-> s_2_1_0, requires |-> <<"foo">>]}

\* the calls of convert_appimage; metadata_given is FALSE for metadata=None,
\* output_dir and distro_profile are empty for None
CallArgs ==
    {[appimage_path |-> ap, output_dir |-> od, metadata_given |-> mg,
      metadata |-> md, distro_profile |-> dp, auto_deps |-> ad,
      repo_enabled |-> re, is_directory |-> dir, callback |-> cb] :
        ap \in {s_path_demo, s_path_plain}, od \in {<<>>, s_out},
        mg \in BOOLEAN, md \in MetadataInputs,
        dp \in {NoProfileId, id_fedora, id_bogus}, ad \in BOOLEAN,
        re \in BOOLEAN, dir \in BOOLEAN, cb \in {"none", "records", "raises"}}

\* os.path.dirname
Dirname(p) ==
    IF Positions(p, "/") = {} THEN <<>> ELSE SubSeq(p, 1, Max(Positions(p, "/")) - 1)

\* the output directory the builder writes to (controller.py 90-91,
\* builder.py 70-73)
OutputDir(a) ==
    LET od == IF a.output_dir = <<>> THEN Dirname(a.appimage_path) ELSE a.output_dir
    IN  IF od = <<>> THEN s_cwd ELSE od

\* a controller that never calls the callback
NotifiedNever(a, done, percents) == done

\* progress_callback(percent, ...) for each of percents, when a callback was given
Notified(a, done, percents) ==
    IF a.callback = "records" THEN done \o percents ELSE done

Failure(text, detail) == [success |-> FALSE, message |-> [text |-> text, detail |-> detail]]

Success(p) ==
    [success |-> TRUE, rpm_path |-> p,
     message |-> [text |-> "RPM package created successfully", detail |-> ""]]

\* the classes of the exceptions the stages raise
ExceptionClasses ==
    {"Exception", "AttributeError", "TypeError", "ValueError", "RuntimeError",
     "FileNotFoundError", "CalledProcessError", "OSError"}

\* a handler that catches RuntimeError alone
Catches_RuntimeError(cls) == cls = "RuntimeError"

\* except Exception
Catches(cls) == cls \in ExceptionClasses

\* a stage raises cls(detail): the handler returns the failure result
Raises(cls, detail) ==
    /\ raised' = cls
    /\ IF Catches(cls)
       THEN /\ pc' = "returned"
            /\ result' = Failure("Error: ", detail)
       ELSE /\ pc' = "escaped"
            /\ result' = result

Terminal == {"returned", "escaped"}

Init ==
    /\ pc = "idle"
    /\ raised = "none"
    /\ SanIdle /\ IconIdle /\ TreeIdle /\ ExtractorIdle /\ CtlIdle /\ CallIdle

\* controller.profile_manager is replaced by a manager that provides
\* create_rpm_macros
ReplaceProfileManager ==
    /\ pc = "idle"
    /\ profile_manager = "DistroProfileManager"
    /\ profile_manager' = "with_create_rpm_macros"
    /\ UNCHANGED <<pc, raised, sanVars, iconVars, treeVars, extractor, args, profile,
                   metadata, disk, package_dependencies, builder, rpm_path, result,
                   progress>>
    /\ UNCHANGED <<analyzer, macros_file, callVars>>

\* lines 88-99
Call ==
    /\ pc = "idle"
    /\ \E a \in CallArgs :
          /\ a.metadata_given \/ a.metadata = EmptyDict
          /\ args' = a
          /\ metadata' = a.metadata
          /\ IF a.callback = "raises"
             THEN /\ Raises("Exception", "progress callback failed")
                  /\ UNCHANGED progress
             ELSE /\ pc' = "profile"
                  /\ progress' = Notified(a, progress, <<5>>)
                  /\ UNCHANGED <<raised, result>>
    /\ UNCHANGED <<sanVars, iconVars, treeVars, extractor, profile_manager, profile,
                   disk, package_dependencies, builder, rpm_path>>
    /\ UNCHANGED <<analyzer, macros_file, callVars>>

\* lines 101-112
ResolveProfile ==
    /\ pc = "profile"
    /\ \E profiles \in ProfileTables, os_release \in OsReleases :
          LET distro_profile ==
                  IF args.distro_profile = NoProfileId
                  THEN detect_current_distro(profiles, os_release)
                  ELSE args.distro_profile
              found == get_profile(profiles, distro_profile)
          IN  IF found = EmptyDict
              THEN /\ pc' = "returned"
                   /\ result' = Failure("Unsupported distribution profile: ", distro_profile)
                   /\ UNCHANGED <<profile, progress>>
              ELSE /\ pc' = "macros"
                   /\ profile' = found
                   /\ progress' = Notified(args, progress, <<10>>)
                   /\ UNCHANGED result
    /\ UNCHANGED <<raised, sanVars, iconVars, treeVars, extractor, args, profile_manager,
                   metadata, disk, package_dependencies, builder, rpm_path>>
    /\ UNCHANGED <<analyzer, macros_file, callVars>>

\* the macro file a manager's create_rpm_macros writes for a profile
s_macros == <<"/", "h", "o", "m", "e", "/", "u", "/", ".", "c", "o", "n", "f", "i", "g", "/", "a", "p", "p", "i", "m", "a", "g", "e", "2", "r", "p", "m", "/", "m", "a", "c", "r", "o", "s", ".">>

\* lines 114-120
CreateRpmMacros ==
    /\ pc = "macros"
    /\ IF HasCreateRpmMacros(profile_manager)
       THEN /\ \E written \in BOOLEAN :
                 /\ macros_file' = IF written THEN s_macros \o profile.id ELSE <<>>
                 /\ progress' = IF written THEN Notified(args, progress, <<15>>) ELSE progress
            /\ pc' = "source"
            /\ UNCHANGED <<raised, result>>
       ELSE /\ Raises("AttributeError", "object has no attribute 'create_rpm_macros'")
            /\ UNCHANGED <<progress, macros_file>>
    /\ UNCHANGED <<sanVars, iconVars, treeVars, extractor, args, profile_manager, profile,
                   metadata, disk, package_dependencies, builder, rpm_path>>
    /\ UNCHANGED <<analyzer, callVars>>

\* lines 122-127: DirectoryPackager.__init__ takes no argument
ProcessDirectory ==
    /\ pc = "source"
    /\ args.is_directory
    /\ progress' = Notified(args, progress, <<20>>)
    /\ Raises("TypeError", "__init__() takes 1 positional argument but 2 were given")
    /\ UNCHANGED <<sanVars, iconVars, treeVars, extractor, args, profile_manager, profile,
                   metadata, disk, package_dependencies, builder, rpm_path>>
    /\ UNCHANGED <<analyzer, macros_file, callVars>>

\* the trees --appimage-extract can leave under squashfs-root, as a walk
\* and the keys of the desktop entry
ExtractedTrees ==
    {[walk |-> <<f_desktop, f_hscal_svg, f_bin>>,
      desktop_entry |-> [Name |-> s_Demo, Exec |-> s_demo, Icon |-> s_demo]],
     [walk |-> <<f_diricon, f_h128_png, f_pix_svg>>, desktop_entry |-> EmptyDict],
     [walk |-> <<f_bin>>, desktop_entry |-> EmptyDict]}

\* lines 145-150: AppImageExtractor(appimage_path) and extract(); extract
\* removes its temporary directory itself when it fails
Extract ==
    /\ pc = "source"
    /\ ~args.is_directory
    /\ progress' = Notified(args, progress, <<20>>)
    /\ \/ /\ \E e \in {<<"FileNotFoundError", "AppImage file not found">>,
                       <<"ValueError", "The specified path is not a file">>,
                       <<"RuntimeError", "Error extracting AppImage">>,
                       <<"FileNotFoundError", "Extracted AppImage content not found">>} :
                Raises(e[1], e[2])
          /\ UNCHANGED <<extractor, treeVars, disk>>
       \/ /\ \E t \in ExtractedTrees :
                /\ walk' = t.walk
                /\ desktop_entry' = t.desktop_entry
          /\ extractor' = Extracted(EmptyDict)
          /\ disk' = disk \cup {"temp_dir"}
          /\ pc' = "metadata"
          /\ UNCHANGED <<raised, result>>
    /\ UNCHANGED <<sanVars, iconVars, args, profile_manager, profile, metadata,
                   package_dependencies, builder, rpm_path>>
    /\ UNCHANGED <<analyzer, macros_file, callVars>>

\* lines 152-157
GetMetadata ==
    /\ pc = "metadata"
    /\ progress' = Notified(args, progress, <<30>>)
    /\ IF DOMAIN metadata = {}
       THEN LET parsed == parse_metadata(args.appimage_path, walk, desktop_entry)
            IN  /\ metadata' = parsed
                /\ extractor' = [extractor EXCEPT !.metadata = parsed]
       ELSE UNCHANGED <<metadata, extractor>>
    /\ pc' = "icons"
    /\ UNCHANGED <<raised, sanVars, iconVars, treeVars, args, profile_manager, profile,
                   disk, package_dependencies, builder, rpm_path, result>>
    /\ UNCHANGED <<analyzer, macros_file, callVars>>

\* lines 159-163
FindIcons ==
    /\ pc = "icons"
    /\ progress' = Notified(args, progress, <<45>>)
    /\ icon_paths' = get_icon_files(extractor, walk, desktop_entry)
    /\ pc' = "dependencies"
    /\ UNCHANGED <<raised, sanVars, selected_icon, selected_icon_ext, treeVars, extractor,
                   args, profile_manager, profile, metadata, disk, package_dependencies,
                   builder, rpm_path, result>>
    /\ UNCHANGED <<analyzer, macros_file, callVars>>

\* lines 165-185; the metadata dictionary parse_metadata returned is the
\* extractor's own, so an assignment to it shows in extractor.metadata
\* the scan runs whatever the caller asked for
ScanAlways(a) == TRUE

\* the scan never runs
ScanNever(a) == FALSE

\* line 167: if auto_deps
ScanRequested(a) == a.auto_deps

DetectDependencies ==
    /\ pc = "dependencies"
    /\ IF ScanRequested(args)
       THEN \/ /\ Executables(walk) # {}
               /\ Raises("FileNotFoundError", "No such file or directory: 'file'")
               /\ progress' = Notified(args, progress, <<35>>)
               /\ analyzer' = NewAnalyzer(SystemLibs)
               /\ UNCHANGED <<metadata, extractor, package_dependencies>>
            \/ /\ \E scans \in [Executables(walk) -> SUBSET LibNames], provides \in ProvidesTables :
                  \E found \in ListsOf(PackageSet(SystemLibs, ScanList(scans), provides)) :
                     /\ package_dependencies' = found
                     /\ analyzer' = [NewAnalyzer(SystemLibs) EXCEPT
                                        !.dependencies = Dependencies(found)]
                     /\ LET requires ==
                                convert_dependencies_to_rpm_requires(Dependencies(found),
                                                                     profile.id)
                        IN  IF requires # <<>>
                            THEN /\ metadata' = DictSet(metadata, "requires", requires)
                                 /\ extractor' =
                                        IF DOMAIN args.metadata = {}
                                        THEN [extractor EXCEPT !.metadata =
                                                 DictSet(metadata, "requires", requires)]
                                        ELSE extractor
                            ELSE UNCHANGED <<metadata, extractor>>
               /\ progress' = Notified(args, progress, <<35, 40>>)
               /\ pc' = "builder"
               /\ UNCHANGED <<raised, result>>
       ELSE /\ pc' = "builder"
            /\ UNCHANGED <<raised, result, metadata, extractor, package_dependencies,
                           progress, analyzer>>
    /\ UNCHANGED <<sanVars, iconVars, treeVars, args, profile_manager, profile, disk,
                   builder, rpm_path>>
    /\ UNCHANGED <<macros_file, callVars>>

\* lines 187-198 and RPMBuilder.__init__ (builder.py 28-83); the record
\* keeps what convert_appimage handed to the constructor
CreateBuilder ==
    /\ pc = "builder"
    /\ progress' = Notified(args, progress, <<50>>)
    /\ LET app_name == DictGet(metadata, "name", <<>>)
           app_version == DictGet(metadata, "version", s_default_version)
           app_release == DictGet(metadata, "release", s_default_release)
           handed == [app_name |-> app_name, app_version |-> app_version,
                      app_release |-> app_release, rpm_name |-> <<>>,
                      output_dir |-> OutputDir(args), requires |-> <<>>,
                      spec_file |-> FALSE]
       IN  IF app_name = <<>>
           THEN /\ Raises("ValueError", "Application name cannot be empty")
                /\ builder' = handed
           ELSE IF app_version = <<>>
           THEN /\ Raises("ValueError", "Application version cannot be empty")
                /\ builder' = handed
           ELSE /\ builder' = [handed EXCEPT !.rpm_name = _sanitize_name(app_name)]
                /\ pc' = "select"
                /\ UNCHANGED <<raised, result>>
    /\ UNCHANGED <<sanVars, iconVars, treeVars, extractor, args, profile_manager, profile,
                   metadata, disk, package_dependencies, rpm_path>>
    /\ UNCHANGED <<analyzer, macros_file, callVars>>

\* lines 200-209
SelectIcon ==
    /\ pc = "select"
    /\ selected_icon' = select_best_icon(icon_paths)
    /\ selected_icon_ext' = select_best_icon_ext(icon_paths, selected_icon_ext)
    /\ progress' = Notified(args, progress, <<55>>)
    /\ pc' = "build"
    /\ UNCHANGED <<raised, sanVars, icon_paths, treeVars, extractor, args, profile_manager,
                   profile, metadata, disk, package_dependencies, builder, rpm_path, result>>
    /\ UNCHANGED <<analyzer, macros_file, callVars>>

\* the name rpmbuild gives the package it writes
RpmFileName(b) ==
    b.rpm_name \o s_dash \o b.app_version \o s_dash \o b.app_release \o s_rpm_arch

\* lines 211-218 and RPMBuilder.build (builder.py 448-532):
\* prepare_build_dir and create_spec_file run before the try, the build
\* directory is removed in the finally of what follows
Build ==
    /\ pc = "build"
    /\ \/ /\ disk' = disk \cup {"rpm_build_dir"}
          /\ Raises("CalledProcessError", "Command 'tar' returned non-zero exit status")
          /\ progress' = Notified(args, progress, <<70>>)
          /\ UNCHANGED <<builder, rpm_path>>
       \/ /\ disk' = disk \cup {"rpm_build_dir"}
          /\ Raises("OSError", "cannot write the spec file")
          /\ progress' = Notified(args, progress, <<70>>)
          /\ UNCHANGED <<builder, rpm_path>>
       \/ /\ \E e \in {"RPM build failed", "Error during RPM build: No RPM package found after build"} :
                Raises("RuntimeError", e)
          /\ builder' = [builder EXCEPT !.requires = DictGet(metadata, "requires", <<>>),
                                        !.spec_file = TRUE]
          /\ progress' = Notified(args, progress, <<70>>)
          /\ UNCHANGED <<disk, rpm_path>>
       \/ /\ builder' = [builder EXCEPT !.requires = DictGet(metadata, "requires", <<>>),
                                        !.spec_file = TRUE]
          /\ rpm_path' = builder.output_dir \o s_slash \o RpmFileName(builder)
          /\ progress' = Notified(args, progress, <<70, 90>>)
          /\ pc' = "publish"
          /\ UNCHANGED <<raised, result, disk>>
    /\ UNCHANGED <<sanVars, iconVars, treeVars, extractor, args, profile_manager, profile,
                   metadata, package_dependencies>>
    /\ UNCHANGED <<analyzer, macros_file, callVars>>

\* lines 220-238: RepoManager defines no publish_rpm
Finish ==
    /\ pc = "publish"
    /\ IF args.repo_enabled
       THEN /\ Raises("AttributeError", "'RepoManager' object has no attribute 'publish_rpm'")
            /\ progress' = Notified(args, progress, <<95>>)
       ELSE /\ result' = Success(rpm_path)
            /\ progress' = Notified(args, progress, <<100>>)
            /\ pc' = "returned"
            /\ UNCHANGED raised
    /\ UNCHANGED <<sanVars, iconVars, treeVars, extractor, args, profile_manager, profile,
                   metadata, disk, package_dependencies, builder, rpm_path>>
    /\ UNCHANGED <<analyzer, macros_file, callVars>>

Next ==
    \/ ReplaceProfileManager
    \/ Call
    \/ ResolveProfile
    \/ CreateRpmMacros
    \/ ProcessDirectory
    \/ Extract
    \/ GetMetadata
    \/ FindIcons
    \/ DetectDependencies
    \/ CreateBuilder
    \/ SelectIcon
    \/ Build
    \/ Finish

Spec == Init /\ [][Next]_vars

(***************************************************************************)
(* Claims about convert_appimage (checked under Spec).                     *)
(***************************************************************************)
\* the end-to-end scenario: the DistroProfileManager of the core package,
\* AppImage mode, a profile that resolved, a caller who supplied name and
\* version, a tree with a desktop entry, one SVG icon and one executable
\* needing no package, no tool that failed
C1_Scenario ==
    /\ profile_manager = "DistroProfileManager"
    /\ ~args.is_directory
    /\ args.callback # "raises"
    /\ ~args.repo_enabled
    /\ {"name", "version"} \subseteq DOMAIN args.metadata
    /\ "requires" \notin DOMAIN args.metadata
    /\ profile # EmptyDict
    /\ raised \notin {"RuntimeError", "FileNotFoundError", "CalledProcessError", "ValueError"}
    /\ walk \in {<<>>, <<f_desktop, f_hscal_svg, f_bin>>}
    /\ package_dependencies = <<>>

\* C1: in the end-to-end scenario the run ends with a result whose success
\* is true, whose rpm_path file name contains the sanitized name and the
\* supplied version, and whose requires list is empty.
C1_EndToEndSuccess ==
    (pc \in Terminal /\ C1_Scenario) =>
        /\ pc = "returned"
        /\ result.success
        /\ Contains(Basename(result.rpm_path), _sanitize_name(args.metadata["name"]))
        /\ Contains(Basename(result.rpm_path), args.metadata["version"])
        /\ DictGet(metadata, "requires", <<>>) = <<>>

\* C2: after any run in AppImage mode, whatever its outcome, neither the
\* temporary extraction directory nor the temporary build directory the
\* run created still exists.
C2_NoTempDirsRemain ==
    (pc \in Terminal /\ ~args.is_directory) => disk = {}

\* C3: no exception escapes convert_appimage: a run in which a stage
\* raised returns a result with success false and a non-empty message, and
\* a result with success true carries rpm_path.
C3_NoEscape ==
    /\ pc # "escaped"
    /\ raised # "none" => pc = "returned"
    /\ (pc = "returned" /\ raised # "none") =>
           /\ ~result.success
           /\ "message" \in DOMAIN result
           /\ result.message.text # ""
    /\ (pc = "returned" /\ result.success) => "rpm_path" \in DOMAIN result

\* the build stage raised after the spec file was written, and the call
\* returned the failure
C3_Witness ==
    /\ pc = "returned"
    /\ raised = "RuntimeError"
    /\ builder # EmptyDict
    /\ builder.spec_file
    /\ ~result.success

\* C4: every field the caller supplied reaches RPMBuilder with the
\* caller's value, and every requires entry the caller supplied is still
\* there when the spec file is generated.
C4_CallerFieldsKept ==
    builder # EmptyDict =>
        /\ "name" \in DOMAIN args.metadata => builder.app_name = args.metadata["name"]
        /\ "version" \in DOMAIN args.metadata => builder.app_version = args.metadata["version"]
        /\ "release" \in DOMAIN args.metadata => builder.app_release = args.metadata["release"]
        /\ (builder.spec_file /\ "requires" \in DOMAIN args.metadata) =>
               \A i \in 1..Len(args.metadata["requires"]) :
                   \E j \in 1..Len(builder.requires) :
                       builder.requires[j] = args.metadata["requires"][i]

\* C5: a field the caller's metadata lacks is derived: name from the
\* desktop entry or else the stem of the bundle's file name, version from
\* the desktop entry or the file name or else "1.0.0", release "1"; the
\* builder is never handed an empty name.
C5_AbsentFieldsDerived ==
    builder # EmptyDict =>
        /\ builder.app_name # <<>>
        /\ "name" \notin DOMAIN args.metadata =>
               builder.app_name =
                   IF HasDesktopFile(walk) /\ "Name" \in DOMAIN desktop_entry
                   THEN desktop_entry.Name
                   ELSE PathStem(Basename(args.appimage_path))
        /\ "version" \notin DOMAIN args.metadata =>
               builder.app_version =
                   IF HasDesktopFile(walk) /\ "Version" \in DOMAIN desktop_entry
                   THEN desktop_entry.Version
                   ELSE IF _extract_version_from_filename(Basename(args.appimage_path)) # NoVersion
                   THEN _extract_version_from_filename(Basename(args.appimage_path))
                   ELSE s_default_version
        /\ "release" \notin DOMAIN args.metadata =>
               builder.app_release = s_default_release

(***************************************************************************)
(* More claims about get_icon_files (checked under SpecIconFiles).         *)
(***************************************************************************)
\* C11: the list get_icon_files returns holds each icon path at most
\* once, whatever number of discovery rules reach the file, and every
\* file a rule reaches is in the list: two files are never merged into one
\* candidate because they share a file name.
C11_EachPathOnce ==
    pc = "listed" =>
        /\ \A i, j \in 1..Len(icon_paths) : i # j => icon_paths[i] # icon_paths[j]
        /\ LET found == IconEntries(extractor, walk, desktop_entry)
           IN  \A k \in 1..Len(found) :
                   \E i \in 1..Len(icon_paths) : icon_paths[i] = found[k].path

\* C14: with auto_deps = false no DependencyAnalyzer is created and no
\* scan runs, and the requires the builder writes are the ones of the
\* caller's metadata, none when the caller gave none.
C14_NoScanWithoutAutoDeps ==
    (args # EmptyDict /\ ~args.auto_deps) =>
        /\ analyzer = EmptyDict
        /\ package_dependencies = <<>>
        /\ (builder # EmptyDict /\ builder.spec_file) =>
               builder.requires = DictGet(args.metadata, "requires", <<>>)

\* a successful run without auto_deps on a tree with an executable, the
\* caller's requires in the spec file
C14_Witness ==
    /\ pc = "returned"
    /\ result.success
    /\ ~args.auto_deps
    /\ Executables(walk) # {}
    /\ "requires" \in DOMAIN args.metadata
    /\ builder.spec_file
    /\ builder.requires = args.metadata["requires"]
    /\ analyzer = EmptyDict

\* C17: a profile that cannot be detected is never fatal: a call without
\* distro_profile on a host whose os-release matches no loaded profile goes
\* on with a default profile and does not return the failure.
C17_UndetectedNotFatal ==
    (pc = "returned" /\ args.distro_profile = NoProfileId) =>
        ~ /\ ~result.success
          /\ result.message.text = "Unsupported distribution profile: "
          /\ result.message.detail = NoProfileId

\* C18: a distro_profile for which get_profile returns nothing ends the
\* call (whose progress callback did not raise) with success = false and
\* the message "Unsupported distribution profile", and nothing has been
\* created by then: no extractor, no temporary directory, no macro file,
\* no analyzer, no builder.
C18_UnknownProfileRejected ==
    (args # EmptyDict /\ args.distro_profile = id_bogus) =>
        /\ pc \in {"profile", "returned"}
        /\ extractor = NewExtractor
        /\ disk = {}
        /\ macros_file = <<>>
        /\ analyzer = EmptyDict
        /\ builder = EmptyDict
        /\ rpm_path = <<>>
        /\ (pc = "returned" /\ raised = "none") =>
               /\ ~result.success
               /\ result.message.text = "Unsupported distribution profile: "
               /\ result.message.detail = id_bogus

\* the call with the unknown id has returned the failure
C18_Witness ==
    /\ pc = "returned"
    /\ raised = "none"
    /\ args.distro_profile = id_bogus
    /\ result = Failure("Unsupported distribution profile: ", id_bogus)
    /\ extractor = NewExtractor
    /\ disk = {}
    /\ macros_file = <<>>

\* C19: the build tree prepare_build_dir created is gone when build has
\* finished, whether it returned the artifact or raised (laying out the
\* tree or the tarball, writing the spec file, rpmbuild, no artifact).
C19_BuildTreeDeleted ==
    pc \in Terminal \cup {"publish"} => "rpm_build_dir" \notin disk

(***************************************************************************)
(* SpecVersion: _extract_version_from_filename, then parse_metadata on a   *)
(* tree without desktop file, for the file names app<sep>[v]<body><tail>,  *)
(* body of up to MaxVersionLen characters of VersionChars.                 *)
(***************************************************************************)
MaxVersionLen == 5

VersionChars == {"1", ".", "-"}

s_app == <<"a", "p", "p">>
s_dummy == <<"/", "d", "u", "m", "m", "y", "/">>

VersionFileNames ==
    {s_app \o <<sep>> \o v \o body \o tail :
        sep \in VersionSeps, v \in {<<>>, <<"v">>},
        body \in Strings(VersionChars, 0, MaxVersionLen),
        tail \in {<<"-", "x", "8", "6", "_", "6", "4", ".", "A", "p", "p", "I", "m", "a", "g", "e">>, <<".", "A", "p", "p", "I", "m", "a", "g", "e">>}}

VersionInit ==
    /\ pc = "version"
    /\ raised = "none"
    /\ call \in {[filename |-> f] : f \in VersionFileNames}
    /\ ret = <<>>
    /\ SanIdle /\ IconIdle /\ TreeIdle /\ ExtractorIdle /\ CtlIdle

\* version = self._extract_version_from_filename()
ExtractVersion ==
    /\ pc = "version"
    /\ ret' = _extract_version_from_filename(call.filename)
    /\ pc' = "extracted"
    /\ UNCHANGED <<call, raised, sanVars, iconVars, treeVars, extractor, ctlVars>>

\* metadata = extractor.parse_metadata(), no desktop file in the tree
ParseMetadata ==
    /\ pc = "extracted"
    /\ metadata' = parse_metadata(s_dummy \o call.filename, walk, desktop_entry)
    /\ extractor' = [extractor EXCEPT
                        !.metadata = parse_metadata(s_dummy \o call.filename, walk, desktop_entry)]
    /\ pc' = "parsed"
    /\ UNCHANGED <<callVars, raised, sanVars, iconVars, treeVars, args, profile_manager,
                   profile, disk, package_dependencies, builder, rpm_path, result,
                   progress, analyzer, macros_file>>

VersionNext == ExtractVersion \/ ParseMetadata

SpecVersion == VersionInit /\ [][VersionNext]_vars

(***************************************************************************)
(* Claims about _extract_version_from_filename (checked under SpecVersion).*)
(***************************************************************************)
\* the texts of the four shapes, stated on the text itself
IsWord(t) == t # <<>> /\ \A i \in 1..Len(t) : t[i] \in WordChars

IsMajorMinor(t) ==
    \E i \in 1..Len(t) :
        t[i] = "." /\ IsDecimal(SubSeq(t, 1, i - 1)) /\ IsDecimal(SubSeq(t, i + 1, Len(t)))

IsThreePart(t) ==
    \E i \in 1..Len(t) :
        t[i] = "." /\ IsMajorMinor(SubSeq(t, 1, i - 1)) /\ IsDecimal(SubSeq(t, i + 1, Len(t)))

IsSemverLike(t) ==
    \/ IsThreePart(t)
    \/ \E i \in 1..Len(t) :
          /\ t[i] = "-"
          /\ IsThreePart(SubSeq(t, 1, i - 1))
          /\ \/ IsWord(SubSeq(t, i + 1, Len(t)))
             \/ \E j \in (i + 1)..Len(t) :
                   /\ t[j] = "."
                   /\ IsWord(SubSeq(t, i + 1, j - 1))
                   /\ IsDecimal(SubSeq(t, j + 1, Len(t)))

HasShape(k, t) ==
    CASE k = 1 -> IsSemverLike(t)
      [] k = 2 -> IsSemverLike(t)
      [] k = 3 -> IsMajorMinor(t)
      [] k = 4 -> IsDecimal(t)

\* the texts pattern k captures somewhere in f: after a separator (and a
\* v for pattern 2), of the shape of k, followed by a dash
CapturesOf(f, k) ==
    {c \in {SubSeq(f, a, b) : a \in 1..Len(f), b \in 1..Len(f)} :
        /\ HasShape(k, c)
        /\ \E a \in 2..Len(f) :
              /\ a + Len(c) <= Len(f)
              /\ SubSeq(f, a, a + Len(c) - 1) = c
              /\ f[a + Len(c)] = "-"
              /\ IF k = 2
                 THEN a >= 3 /\ f[a - 1] = "v" /\ f[a - 2] \in VersionSeps
                 ELSE f[a - 1] \in VersionSeps}

MatchingPatterns(f) == {k \in 1..4 : CapturesOf(f, k) # {}}

\* C12: the patterns are tried in the order semantic-version-like,
\* vX.Y.Z-like, major.minor, integer, and a capture of the first one that
\* matches anywhere in the file name is returned; None when none matches;
\* the four documented file names give "1.0.0", "2.1.3", "4.2" and "5";
\* "1.0.0" as a default comes from parse_metadata alone.
C12_FirstPatternWins ==
    /\ _extract_version_from_filename(<<"a", "p", "p", "-", "1", ".", "0", ".", "0", "-", "x", "8", "6", "_", "6", "4">>) = <<"1", ".", "0", ".", "0">>
    /\ _extract_version_from_filename(<<"a", "p", "p", "-", "v", "2", ".", "1", ".", "3", "-", "x", "8", "6", "_", "6", "4">>) = <<"2", ".", "1", ".", "3">>
    /\ _extract_version_from_filename(<<"a", "p", "p", "-", "4", ".", "2", "-", "x", "8", "6", "_", "6", "4">>) = <<"4", ".", "2">>
    /\ _extract_version_from_filename(<<"a", "p", "p", "-", "5", "-", "x", "8", "6", "_", "6", "4">>) = <<"5">>
    /\ pc \in {"extracted", "parsed"} =>
           IF MatchingPatterns(call.filename) = {}
           THEN ret = NoVersion
           ELSE ret \in CapturesOf(call.filename, Min(MatchingPatterns(call.filename)))
    /\ pc = "parsed" =>
           metadata["version"] = IF ret = NoVersion THEN s_default_version ELSE ret

\* a file name in which the integer pattern matches before (further left
\* than) the major.minor pattern, and the major.minor capture is returned
C12_Witness ==
    /\ pc = "parsed"
    /\ call.filename = <<"a", "p", "p", "-", "1", "-", "1", ".", "1", "-", "x", "8", "6", "_", "6", "4", ".", "A", "p", "p", "I", "m", "a", "g", "e">>
    /\ ret = <<"1", ".", "1">>
    /\ metadata["version"] = <<"1", ".", "1">>

(***************************************************************************)
(* SpecAnalyze: one DependencyAnalyzer; analyze_dependencies over the      *)
(* results of up to MaxExecutables scans, and                              *)
(* convert_dependencies_to_rpm_requires, of the package and of the legacy  *)
(* module, called before or after the analysis.                            *)
(***************************************************************************)
MaxExecutables == 2

\* the baselines _load_system_libs can find on a host
SystemLibSets == {{}, {"libc.so.6"}, {"libc.so.6", "libfoo.so.2"}}

\* the family ids convert_dependencies_to_rpm_requires is called with
FamilyIds == DependencyKeys \cup {id_fedora41, id_bogus}

AnalyzeInit ==
    /\ pc = "analyzer"
    /\ raised = "none"
    /\ analyzer \in {NewAnalyzer(sl) : sl \in SystemLibSets}
    /\ macros_file = <<>>
    /\ call \in {[scans |-> sc, provides |-> pr] :
                    sc \in UNION {[1..n -> SUBSET LibNames] : n \in 0..MaxExecutables},
                    pr \in ProvidesTables}
    /\ ret = <<>>
    /\ SanIdle /\ IconIdle /\ TreeIdle /\ ExtractorIdle
    /\ args = EmptyDict /\ profile_manager = "DistroProfileManager" /\ profile = EmptyDict
    /\ metadata = EmptyDict /\ disk = {} /\ package_dependencies = <<>>
    /\ builder = EmptyDict /\ rpm_path = <<>> /\ result = EmptyDict /\ progress = <<>>

\* analyzer.analyze_dependencies()
AnalyzeDependencies ==
    /\ pc = "analyzer"
    /\ \E packages \in ListsOf(PackageSet(analyzer.system_libs, call.scans, call.provides)) :
          analyzer' = [analyzer EXCEPT !.dependencies = Dependencies(packages)]
    /\ pc' = "analyzed"
    /\ UNCHANGED <<callVars, raised, sanVars, iconVars, treeVars, extractor, args,
                   profile_manager, profile, metadata, disk, package_dependencies,
                   builder, rpm_path, result, progress, macros_file>>

\* analyzer.convert_dependencies_to_rpm_requires(distro_id), package
ConvertDependencies ==
    /\ pc \in {"analyzer", "analyzed"}
    /\ \E distro_id \in FamilyIds :
          ret' = [module |-> "core", distro_id |-> distro_id,
                  requires |-> convert_dependencies_to_rpm_requires(analyzer.dependencies,
                                                                    distro_id)]
    /\ pc' = "converted"
    /\ UNCHANGED <<call, raised, sanVars, iconVars, treeVars, extractor, ctlVars>>

\* analyzer.convert_dependencies_to_rpm_requires(distro), legacy module
LegacyConvertDependencies ==
    /\ pc \in {"analyzer", "analyzed"}
    /\ \E distro \in FamilyIds :
          ret' = [module |-> "legacy", distro_id |-> distro,
                  requires |-> legacy_convert_dependencies_to_rpm_requires(
                                   analyzer.dependencies, distro)]
    /\ pc' = "converted"
    /\ UNCHANGED <<call, raised, sanVars, iconVars, treeVars, extractor, ctlVars>>

AnalyzeNext == AnalyzeDependencies \/ ConvertDependencies \/ LegacyConvertDependencies

SpecAnalyze == AnalyzeInit /\ [][AnalyzeNext]_vars

(***************************************************************************)
(* Claims about the dependency analyzer (checked under SpecAnalyze).       *)
(***************************************************************************)
Detected(lib) == \E i \in 1..Len(call.scans) : lib \in call.scans[i]

C15_UnknownFamilyEmpty ==
    (pc = "converted" /\ ret.distro_id \notin DOMAIN analyzer.dependencies)
        => ret.requires = <<>>

(***************************************************************************)
(* SpecDistro: DistroProfileManager of the legacy module                   *)
(* (src/dependency_utils.py 348-516): the profiles load_profiles left, the *)
(* text of /etc/os-release, detect_current_distro, then get_profile of the *)
(* id it returned.  A profile table keeps the order of the dictionary.     *)
(***************************************************************************)
MaxProfiles == 2
MaxOsReleaseLines == 2

s_40 == <<"4", "0">>
s_9 == <<"9">>
id_fedora40 == <<"f", "e", "d", "o", "r", "a", "4", "0">>
id_rhel9 == <<"r", "h", "e", "l", "9">>
id_centos9 == <<"c", "e", "n", "t", "o", "s", "9">>
id_myfedora == <<"m", "y", "f", "e", "d", "o", "r", "a">>
id_broken == <<"b", "r", "o", "k", "e", "n">>

\* an entry of self.profiles: the key and the fields of the profile that
\* detect_current_distro reads
ProfileEntry(key, fields) == [key |-> key, fields |-> fields]

\* lines 372-442: the profiles created when no distros.toml loads
DefaultProfiles ==
    << ProfileEntry(id_fedora40, [id |-> id_fedora, version |-> s_40]),
       ProfileEntry(id_fedora41, [id |-> id_fedora, version |-> s_41]),
       ProfileEntry(id_rhel9, [id |-> id_rhel, version |-> s_9]),
       ProfileEntry(id_centos9, [id |-> id_centos, version |-> s_9]) >>

\* the tables a distros.toml can hold; the table broken lacks version
TomlEntries ==
    { ProfileEntry(id_fedora41, [id |-> id_fedora, version |-> s_41]),
      ProfileEntry(id_fedora40, [id |-> id_fedora, version |-> s_40]),
      ProfileEntry(id_myfedora, [id |-> id_fedora, version |-> s_41]),
      ProfileEntry(id_rhel9, [id |-> id_rhel, version |-> s_9]),
      ProfileEntry(id_broken, [id |-> id_fedora]) }

\* load_profiles: a loaded distros.toml, else the default profiles
LoadedProfiles ==
    {DefaultProfiles} \cup
    {t \in UNION {[1..n -> TomlEntries] : n \in 0..MaxProfiles} :
        \A i, j \in 1..Len(t) : i # j => t[i].key # t[j].key}

NoFile == <<"<missing>">>

OsReleaseLines ==
    { <<"I", "D", "=", "f", "e", "d", "o", "r", "a">>, <<"I", "D", "=", "\"", "f", "e", "d", "o", "r", "a", "\"">>,
      <<"I", "D", "=", "r", "h", "e", "l">>, <<"I", "D", "=", "a", "r", "c", "h">>, <<"I", "D", "=">>,
      <<"V", "E", "R", "S", "I", "O", "N", "_", "I", "D", "=", "4", "1">>, <<"V", "E", "R", "S", "I", "O", "N", "_", "I", "D", "=", "\"", "4", "1", "\"">>,
      <<"V", "E", "R", "S", "I", "O", "N", "_", "I", "D", "=", "9">>, <<"N", "A", "M", "E", "=", "L", "i", "n", "u", "x">> }

\* /etc/os-release: missing, or its lines
OsReleaseFiles ==
    {NoFile} \cup UNION {[1..n -> OsReleaseLines] : n \in 0..MaxOsReleaseLines}

\* str.strip('"\''): quote characters removed from both ends
RECURSIVE StripQuotes(_)
StripQuotes(s) ==
    IF s = <<>> THEN s
    ELSE IF Head(s) \in {"\"", "'"} THEN StripQuotes(Tail(s))
    ELSE IF s[Len(s)] \in {"\"", "'"} THEN StripQuotes(SubSeq(s, 1, Len(s) - 1))
    ELSE s

\* re.search(r'^KEY=(.+)$', text, re.MULTILINE): group 1 of the first line
\* that starts with KEY= and goes on, <<>> for no match
RECURSIVE LineMatch(_, _)
LineMatch(lines, prefix) ==
    IF lines = <<>> THEN <<>>
    ELSE IF StartsWith(Head(lines), prefix) /\ Len(Head(lines)) > Len(prefix)
         THEN SubSeq(Head(lines), Len(prefix) + 1, Len(Head(lines)))
         ELSE LineMatch(Tail(lines), prefix)

\* the first loop of lines 502-505: "found" with the key, "KeyError" when
\* a profile before any match lacks a field, "none"
RECURSIVE ExactMatch(_, _, _)
ExactMatch(profiles, distro_id, distro_version) ==
    IF profiles = <<>> THEN [outcome |-> "none"]
    ELSE LET profile_fields == Head(profiles).fields
         IN  IF "id" \notin DOMAIN profile_fields THEN [outcome |-> "KeyError"]
             ELSE IF profile_fields.id # distro_id
             THEN ExactMatch(Tail(profiles), distro_id, distro_version)
             ELSE IF "version" \notin DOMAIN profile_fields THEN [outcome |-> "KeyError"]
             ELSE IF profile_fields.version = distro_version
             THEN [outcome |-> "found", key |-> Head(profiles).key]
             ELSE ExactMatch(Tail(profiles), distro_id, distro_version)

\* the second loop of lines 508-510
RECURSIVE IdMatch(_, _)
IdMatch(profiles, distro_id) ==
    IF profiles = <<>> THEN [outcome |-> "none"]
    ELSE LET profile_fields == Head(profiles).fields
         IN  IF "id" \notin DOMAIN profile_fields THEN [outcome |-> "KeyError"]
             ELSE IF profile_fields.id = distro_id
             THEN [outcome |-> "found", key |-> Head(profiles).key]
             ELSE IdMatch(Tail(profiles), distro_id)

\* DistroProfileManager.detect_current_distro of the legacy module
legacy_detect_current_distro(profiles, os_release) ==
    IF os_release = NoFile THEN id_fedora41
    ELSE IF LineMatch(os_release, <<"I", "D", "=">>) = <<>>
            \/ LineMatch(os_release, <<"V", "E", "R", "S", "I", "O", "N", "_", "I", "D", "=">>) = <<>>
    THEN id_fedora41
    ELSE LET distro_id == StripQuotes(LineMatch(os_release, <<"I", "D", "=">>))
             distro_version == StripQuotes(LineMatch(os_release, <<"V", "E", "R", "S", "I", "O", "N", "_", "I", "D", "=">>))
             exact == ExactMatch(profiles, distro_id, distro_version)
             same == IdMatch(profiles, distro_id)
         IN  IF exact.outcome = "found" THEN exact.key
             ELSE IF exact.outcome = "KeyError" THEN id_fedora41
             ELSE IF same.outcome = "found" THEN same.key
             ELSE id_fedora41

\* DistroProfileManager.get_profile of the legacy module, EmptyDict for None
legacy_get_profile(profiles, profile_id) ==
    IF \E i \in 1..Len(profiles) : profiles[i].key = profile_id
    THEN (CHOOSE e \in {profiles[i] : i \in 1..Len(profiles)} : e.key = profile_id).fields
    ELSE EmptyDict

DistroInit ==
    /\ pc = "manager"
    /\ raised = "none"
    /\ call \in {[profiles |-> t, os_release |-> o] :
                    t \in LoadedProfiles, o \in OsReleaseFiles}
    /\ ret = <<>>
    /\ SanIdle /\ IconIdle /\ TreeIdle /\ ExtractorIdle /\ CtlIdle

\* profile_id = manager.detect_current_distro()
DetectCurrentDistro ==
    /\ pc = "manager"
    /\ ret' = legacy_detect_current_distro(call.profiles, call.os_release)
    /\ pc' = "detected"
    /\ UNCHANGED <<call, raised, sanVars, iconVars, treeVars, extractor, ctlVars>>

\* profile = manager.get_profile(profile_id)
GetProfile ==
    /\ pc = "detected"
    /\ profile' = legacy_get_profile(call.profiles, ret)
    /\ pc' = "resolved"
    /\ UNCHANGED <<callVars, raised, sanVars, iconVars, treeVars, extractor, args,
                   profile_manager, metadata, disk, package_dependencies, builder,
                   rpm_path, result, progress, analyzer, macros_file>>

DistroNext == DetectCurrentDistro \/ GetProfile

SpecDistro == DistroInit /\ [][DistroNext]_vars

(***************************************************************************)
(* Claims about the legacy DistroProfileManager (checked under SpecDistro).*)
(***************************************************************************)
\* the ID and VERSION_ID of the host as the file states them, <<>> for none
HostField(prefix) ==
    IF call.os_release = NoFile THEN <<>>
    ELSE IF \E i \in 1..Len(call.os_release) :
               /\ StartsWith(call.os_release[i], prefix)
               /\ Len(call.os_release[i]) > Len(prefix)
         THEN LET i == Min({j \in 1..Len(call.os_release) :
                               /\ StartsWith(call.os_release[j], prefix)
                               /\ Len(call.os_release[j]) > Len(prefix)})
              IN  StripQuotes(SubSeq(call.os_release[i], Len(prefix) + 1,
                                     Len(call.os_release[i])))
         ELSE <<>>

WellFormed(e) == {"id", "version"} \subseteq DOMAIN e.fields

SameIdKeys ==
    {call.profiles[i].key : i \in {j \in 1..Len(call.profiles) :
        /\ HostField(<<"I", "D", "=">>) # <<>>
        /\ "id" \in DOMAIN call.profiles[j].fields
        /\ call.profiles[j].fields.id = HostField(<<"I", "D", "=">>)}}

ExactKeys ==
    {call.profiles[i].key : i \in {j \in 1..Len(call.profiles) :
        /\ HostField(<<"I", "D", "=">>) # <<>>
        /\ HostField(<<"V", "E", "R", "S", "I", "O", "N", "_", "I", "D", "=">>) # <<>>
        /\ WellFormed(call.profiles[j])
        /\ call.profiles[j].fields.id = HostField(<<"I", "D", "=">>)
        /\ call.profiles[j].fields.version = HostField(<<"V", "E", "R", "S", "I", "O", "N", "_", "I", "D", "=">>)}}

\* C16: detect_current_distro of the legacy manager returns a key of the
\* loaded profiles or else the fallback "fedora41", which is a key of the
\* default profiles; it returns a profile matching id and version when
\* there is one, else a profile of the same id when there is one, else the
\* fallback.
C16_DetectedIsProfile ==
    /\ \E i \in 1..Len(DefaultProfiles) : DefaultProfiles[i].key = id_fedora41
    /\ pc \in {"detected", "resolved"} =>
           /\ ret = id_fedora41 \/ \E i \in 1..Len(call.profiles) : call.profiles[i].key = ret
           /\ IF ExactKeys # {} THEN ret \in ExactKeys
              ELSE IF SameIdKeys # {} THEN ret \in SameIdKeys
              ELSE ret = id_fedora41
    /\ pc = "resolved" => (profile # EmptyDict \/ ret = id_fedora41)

(***************************************************************************)
(* SpecExtract: AppImageExtractor.extract (extractor.py 55-116) on a       *)
(* bundle whose self-extraction exits with call.returncode and leaves      *)
(* call.content under the temporary directory, then get_desktop_file or    *)
(* get_icon_files on the same extractor.                                   *)
(***************************************************************************)
NoContent == [walk |-> <<>>, desktop_entry |-> EmptyDict, dirs |-> FALSE]

\* what --appimage-extract leaves in the working directory
ExtractContents ==
    {NoContent}
    \cup {[walk |-> t.walk, desktop_entry |-> t.desktop_entry, dirs |-> TRUE] :
             t \in ExtractedTrees}
    \cup {[walk |-> w, desktop_entry |-> EmptyDict, dirs |-> TRUE] :
             w \in UNION {WalkOrders(T) : T \in IconTrees}}

\* rmtree alone, the fields left as they are
cleanup_keeping_fields(ex) == ex

\* cleanup (lines 408-414), the directory of ex.temp_dir being on disk
cleanup(ex) ==
    IF ex.temp_dir # <<>>
    THEN [ex EXCEPT !.temp_dir = <<>>, !.extracted_dir = <<>>]
    ELSE ex

\* get_desktop_file on an extracted tree: the first .desktop file of the
\* walk, <<>> for None
get_desktop_file(ex, w) ==
    IF HasDesktopFile(w) THEN PathOf(ex.extracted_dir, w[Min(DesktopFiles(w))]) ELSE <<>>

ExtractInit ==
    /\ pc = "new"
    /\ raised = "none"
    /\ call \in {[returncode |-> rc, content |-> c] : rc \in {0, 1}, c \in ExtractContents}
    /\ ret = <<>>
    /\ SanIdle /\ IconIdle /\ TreeIdle /\ ExtractorIdle /\ CtlIdle

\* extracted_dir = extractor.extract()
ExtractAppImage ==
    /\ pc = "new"
    /\ IF call.returncode # 0
       THEN /\ raised' = "RuntimeError"
            /\ extractor' = cleanup(Extracted(extractor.metadata))
            /\ disk' = IF cleanup(Extracted(extractor.metadata)).temp_dir = <<>>
                       THEN disk ELSE disk \cup {"temp_dir"}
            /\ pc' = "failed"
            /\ UNCHANGED treeVars
       ELSE IF ~call.content.dirs
       THEN /\ raised' = "FileNotFoundError"
            /\ extractor' = cleanup(Extracted(extractor.metadata))
            /\ disk' = IF cleanup(Extracted(extractor.metadata)).temp_dir = <<>>
                       THEN disk ELSE disk \cup {"temp_dir"}
            /\ pc' = "failed"
            /\ UNCHANGED treeVars
       ELSE /\ extractor' = Extracted(extractor.metadata)
            /\ disk' = disk \cup {"temp_dir"}
            /\ walk' = call.content.walk
            /\ desktop_entry' = call.content.desktop_entry
            /\ pc' = "extracted"
            /\ UNCHANGED raised
    /\ UNCHANGED <<callVars, sanVars, iconVars, args, profile_manager, profile, metadata,
                   package_dependencies, builder, rpm_path, result, progress, analyzer,
                   macros_file>>

\* extractor.get_desktop_file()
GetDesktopFile ==
    /\ pc \in {"failed", "extracted"}
    /\ ret' = IF extractor.extracted_dir = <<>>
              THEN [method |-> "get_desktop_file", raised |-> "ValueError"]
              ELSE [method |-> "get_desktop_file", raised |-> "none",
                    value |-> get_desktop_file(extractor, walk)]
    /\ pc' = "called"
    /\ UNCHANGED <<call, raised, sanVars, iconVars, treeVars, extractor, ctlVars>>

\* extractor.get_icon_files()
GetIconFilesAfterExtract ==
    /\ pc \in {"failed", "extracted"}
    /\ IF extractor.extracted_dir = <<>>
       THEN /\ ret' = [method |-> "get_icon_files", raised |-> "ValueError"]
            /\ UNCHANGED icon_paths
       ELSE /\ ret' = [method |-> "get_icon_files", raised |-> "none"]
            /\ icon_paths' = get_icon_files(extractor, walk, desktop_entry)
    /\ pc' = "called"
    /\ UNCHANGED <<call, raised, selected_icon, selected_icon_ext, sanVars, treeVars,
                   extractor, ctlVars>>

ExtractNext == ExtractAppImage \/ GetDesktopFile \/ GetIconFilesAfterExtract

SpecExtract == ExtractInit /\ [][ExtractNext]_vars

(***************************************************************************)
(* Claims about AppImageExtractor.extract (checked under SpecExtract).     *)
(***************************************************************************)
\* C20: when the self-extraction exits non-zero extract raises
\* RuntimeError, when it leaves no content directory extract raises
\* FileNotFoundError; in both cases the temporary directory is gone and
\* temp_dir and extracted_dir are None, so that get_desktop_file and
\* get_icon_files afterwards raise ValueError.
C20_FailedExtractCleansUp ==
    /\ (pc # "new" /\ call.returncode # 0) => raised = "RuntimeError"
    /\ (pc # "new" /\ call.returncode = 0 /\ ~call.content.dirs) =>
           raised = "FileNotFoundError"
    /\ (pc # "new" /\ (call.returncode # 0 \/ ~call.content.dirs)) =>
           /\ "temp_dir" \notin disk
           /\ extractor.temp_dir = <<>>
           /\ extractor.extracted_dir = <<>>
           /\ pc = "called" => ret.raised = "ValueError"

\* the extraction command failed on a bundle that had left files, and
\* get_icon_files was called afterwards
C20_Witness ==
    /\ pc = "called"
    /\ raised = "RuntimeError"
    /\ call.returncode # 0
    /\ call.content.walk # <<>>
    /\ ret.method = "get_icon_files"
    /\ ret.raised = "ValueError"
    /\ disk = {}

(***************************************************************************)
(* SpecLocate: the part of RPMBuilder.build after rpmbuild has exited zero *)
(* (builder.py 493-511): the files under RPMS of the build tree, in the    *)
(* order the directory lists them, and the artifact build returns.         *)
(***************************************************************************)
MaxRpmFiles == 3

s_debuginfo == <<"-", "d", "e", "b", "u", "g", "i", "n", "f", "o">>
s_noarch_rpm == <<".", "n", "o", "a", "r", "c", "h", ".", "r", "p", "m">>

\* the builders whose build tree is searched
LocateBuilders ==
    {[app_name |-> s_Demo, app_version |-> v, app_release |-> s_default_release,
      rpm_name |-> s_demo, output_dir |-> s_out, requires |-> <<>>, spec_file |-> TRUE] :
        v \in {s_default_version, s_2_1_0}}

RpmFile(dir, file) == [dir |-> dir, file |-> file]

\* the files rpmbuild can leave under RPMS for builder b
RpmCatalogue(b) ==
    {RpmFile("x86_64", RpmFileName(b)),
     RpmFile("x86_64", b.rpm_name \o s_debuginfo \o s_dash \o b.app_version \o s_dash
                          \o b.app_release \o s_rpm_arch),
     RpmFile("noarch", b.rpm_name \o s_dash \o b.app_version \o s_dash \o b.app_release
                          \o s_noarch_rpm),
     RpmFile("x86_64", <<"b", "u", "i", "l", "d", ".", "l", "o", "g">>)}

\* the listings of RPMS: up to MaxRpmFiles files, none twice
RpmListings(b) ==
    {l \in UNION {[1..n -> RpmCatalogue(b)] : n \in 0..MaxRpmFiles} :
        \A i, j \in 1..Len(l) : i # j => l[i] # l[j]}

\* rpm_dir.glob(f"{self.rpm_name}*.rpm") with rpm_dir = RPMS/x86_64
GlobRpmDir(b, listing) ==
    SelectSeq(listing, LAMBDA f : /\ f.dir = "x86_64"
                                  /\ StartsWith(f.file, b.rpm_name)
                                  /\ EndsWith(f.file, <<".", "r", "p", "m">>))

LocateInit ==
    /\ pc = "rpmbuild_done"
    /\ raised = "none"
    /\ \E b \in LocateBuilders :
          /\ builder = b
          /\ call \in {[listing |-> l] : l \in RpmListings(b)}
    /\ ret = <<>>
    /\ SanIdle /\ IconIdle /\ TreeIdle /\ ExtractorIdle
    /\ args = EmptyDict /\ profile_manager = "DistroProfileManager" /\ profile = EmptyDict
    /\ metadata = EmptyDict /\ disk = {"rpm_build_dir"} /\ package_dependencies = <<>>
    /\ rpm_path = <<>> /\ result = EmptyDict /\ progress = <<>>
    /\ analyzer = EmptyDict /\ macros_file = <<>>

\* lines 493-524: find the built RPM, copy it out, clean up in the finally
LocateArtifact ==
    /\ pc = "rpmbuild_done"
    /\ LET rpm_files == GlobRpmDir(builder, call.listing)
       IN  IF rpm_files = <<>>
           THEN /\ raised' = "RuntimeError"
                /\ pc' = "failed"
                /\ UNCHANGED <<rpm_path, ret>>
           ELSE /\ ret' = rpm_files[1]
                /\ rpm_path' = builder.output_dir \o s_slash \o rpm_files[1].file
                /\ pc' = "located"
                /\ UNCHANGED raised
    /\ disk' = disk \ {"rpm_build_dir"}
    /\ UNCHANGED <<call, sanVars, iconVars, treeVars, extractor, args, profile_manager,
                   profile, metadata, package_dependencies, builder, result, progress,
                   analyzer, macros_file>>

LocateNext == LocateArtifact

SpecLocate == LocateInit /\ [][LocateNext]_vars

(***************************************************************************)
(* Claims about the artifact search (checked under SpecLocate).            *)
(***************************************************************************)
\* the files of the RPM directory named {rpm_name}-{version}*
StrictMatches ==
    {call.listing[i] : i \in {j \in 1..Len(call.listing) :
        /\ call.listing[j].dir = "x86_64"
        /\ StartsWith(call.listing[j].file,
                      builder.rpm_name \o s_dash \o builder.app_version)}}

\* the package files anywhere under the tree
AnyPackages ==
    {call.listing[i] : i \in {j \in 1..Len(call.listing) :
        EndsWith(call.listing[j].file, <<".", "r", "p", "m">>)}}

\* C21: after rpmbuild exits zero the artifact is a file named
\* {rpm_name}-{version}* of the RPM directory when there is one, else any
\* package file under the tree when there is one, else build raises
\* the build error.
C21_StrictThenFallback ==
    pc \in {"located", "failed"} =>
        IF StrictMatches # {} THEN pc = "located" /\ ret \in StrictMatches
        ELSE IF AnyPackages # {} THEN pc = "located" /\ ret \in AnyPackages
        ELSE pc = "failed" /\ raised = "RuntimeError"

(***************************************************************************)
(* SpecPackage: RPMBuilder.prepare_build_dir with _copy_icons and          *)
(* _update_desktop_file, then create_spec_file (builder.py 144-446), for   *)
(* one builder, the icon candidates, the desktop file of the tree, the     *)
(* requires of the metadata and the macros of the rpm of the host.         *)
(***************************************************************************)
MaxDesktopLines == 3

\* no .desktop file anywhere in the tree
NoDesktop == << <<"<none>">> >>

DesktopLineCatalogue ==
    {<<"[", "D", "e", "s", "k", "t", "o", "p", " ", "E", "n", "t", "r", "y", "]">>, <<"E", "x", "e", "c", "=", "a", "p", "p", " ", "%", "F">>, <<"I", "c", "o", "n", "=", "a", "p", "p">>, <<"N", "a", "m", "e", "=", "E", "x", "e", "c", "=", "1">>, <<"T", "r", "y", "E", "x", "e", "c", "=", "a", "p", "p">>}

DesktopTexts ==
    UNION {[1..n -> DesktopLineCatalogue] : n \in 0..MaxDesktopLines}

IconPathLists ==
    {<<>>, <<p_svg>>, <<p_png>>, <<p_png8, p_png64>>, <<p_xpm>>}

s_lib1 == <<"l", "i", "b", "1">>
s_lib2 == <<"l", "i", "b", "2">>

RequiresLists == {<<>>, <<s_lib1>>, <<s_lib1, s_lib2>>}

\* %{_bindir}, %{_datadir} and %{_libdir} as rpm expands them on the host
RpmMacroTables ==
    {[_bindir |-> <<"/", "u", "s", "r", "/", "b", "i", "n">>, _datadir |-> <<"/", "u", "s", "r", "/", "s", "h", "a", "r", "e">>, _libdir |-> l, none |-> <<>>] :
        l \in {<<"/", "u", "s", "r", "/", "l", "i", "b">>, <<"/", "u", "s", "r", "/", "l", "i", "b", "6", "4">>}}

\* Exec= and Icon= rewritten wherever the text occurs in a line
_update_desktop_file_anywhere(b, lines) ==
    [i \in 1..Len(lines) |->
        IF \E k \in 1..Len(lines[i]) : StartsWith(SubSeq(lines[i], k, Len(lines[i])), <<"E", "x", "e", "c", "=">>)
        THEN <<"E", "x", "e", "c", "=", "/", "u", "s", "r", "/", "b", "i", "n", "/">> \o b.rpm_name
        ELSE IF \E k \in 1..Len(lines[i]) :
                   StartsWith(SubSeq(lines[i], k, Len(lines[i])), <<"I", "c", "o", "n", "=">>)
        THEN <<"I", "c", "o", "n", "=">> \o b.rpm_name
        ELSE lines[i]]

\* _update_desktop_file: the lines of the file after the call
_update_desktop_file(b, lines) ==
    [i \in 1..Len(lines) |->
        IF StartsWith(lines[i], <<"E", "x", "e", "c", "=">>) THEN <<"E", "x", "e", "c", "=", "/", "u", "s", "r", "/", "b", "i", "n", "/">> \o b.rpm_name
        ELSE IF StartsWith(lines[i], <<"I", "c", "o", "n", "=">>) THEN <<"I", "c", "o", "n", "=">> \o b.rpm_name
        ELSE lines[i]]

\* group 1 of the size match as text, <<>> when the path shows no size
SizeText(p) ==
    IF SizeMatchStarts(p) = {} THEN <<>>
    ELSE SubSeq(p, Min(SizeMatchStarts(p)), DigitRunEnd(p, Min(SizeMatchStarts(p))))

\* _copy_icons: self.icon_install_paths after the call
_copy_icons(b, paths) ==
    IF select_best_icon(paths) = NoIcon THEN <<>>
    ELSE LET icon_name == b.rpm_name \o select_best_icon_ext(paths, <<>>)
             size == IF SizeText(select_best_icon(paths)) = <<>> THEN <<"4", "8">>
                     ELSE SizeText(select_best_icon(paths))
         IN  << <<"/", "u", "s", "r", "/", "s", "h", "a", "r", "e", "/", "p", "i", "x", "m", "a", "p", "s", "/">> \o icon_name >>
             \o (IF Lower(select_best_icon_ext(paths, <<>>)) = ext_png
                 THEN << <<"/", "u", "s", "r", "/", "s", "h", "a", "r", "e", "/", "i", "c", "o", "n", "s", "/", "h", "i", "c", "o", "l", "o", "r", "/">> \o size \o <<"x">> \o size
                            \o <<"/", "a", "p", "p", "s", "/">> \o icon_name >>
                 ELSE IF Lower(select_best_icon_ext(paths, <<>>)) = ext_svg
                 THEN << <<"/", "u", "s", "r", "/", "s", "h", "a", "r", "e", "/", "i", "c", "o", "n", "s", "/", "h", "i", "c", "o", "l", "o", "r", "/", "s", "c", "a", "l", "a", "b", "l", "e", "/", "a", "p", "p", "s", "/">> \o icon_name >>
                 ELSE <<>>)

\* prepare_build_dir: the paths under SOURCES/{rpm_name} that %install
\* copies to the build root; the payload directory stands for its content
InstalledTree(b, paths, desktop) ==
    {<<"/", "u", "s", "r", "/", "b", "i", "n", "/">> \o b.rpm_name, <<"/", "u", "s", "r", "/", "l", "i", "b", "/">> \o b.rpm_name}
    \cup (IF desktop = NoDesktop THEN {}
          ELSE {<<"/", "u", "s", "r", "/", "s", "h", "a", "r", "e", "/", "a", "p", "p", "l", "i", "c", "a", "t", "i", "o", "n", "s", "/">> \o b.rpm_name \o <<".", "d", "e", "s", "k", "t", "o", "p">>})
    \cup (IF paths = <<>> THEN {}
          ELSE {_copy_icons(b, paths)[i] : i \in 1..Len(_copy_icons(b, paths))})

FilesLine(macro, tail) == [macro |-> macro, tail |-> tail]

RECURSIVE JoinWithSpace(_)
JoinWithSpace(items) ==
    IF items = <<>> THEN <<>>
    ELSE IF Len(items) = 1 THEN items[1]
    ELSE items[1] \o <<" ">> \o JoinWithSpace(Tail(items))

\* lines 397-404: the Requires: lines of the spec text
RequiresLines(requires) ==
    IF requires # <<>>
    THEN << <<"R", "e", "q", "u", "i", "r", "e", "s", ":", " ", " ", " ", " ", " ", " ", " ", "%", "{", "?", "_", "i", "s", "a", ":", "%", "{", "_", "i", "s", "a", "}", "}", " ">> \o JoinWithSpace(requires) >>
    ELSE <<>>

\* create_spec_file: the Requires: lines and the lines of %files
create_spec_file(b, requires, icon_install_paths) ==
    [requires |-> RequiresLines(requires),
     files |-> << FilesLine("_bindir", s_slash \o b.rpm_name),
                  FilesLine("_datadir", <<"/", "a", "p", "p", "l", "i", "c", "a", "t", "i", "o", "n", "s", "/">> \o b.rpm_name \o <<".", "d", "e", "s", "k", "t", "o", "p">>),
                  FilesLine("_libdir", s_slash \o b.rpm_name) >>
               \o [i \in 1..Len(icon_install_paths) |->
                      FilesLine("none", icon_install_paths[i])]]

\* the path a line of %files names once rpm has expanded its macro
ExpandFilesLine(line, macros) == macros[line.macro] \o line.tail

PackageInit ==
    /\ pc = "prepare"
    /\ raised = "none"
    /\ builder \in {b \in LocateBuilders : b.app_version = s_default_version}
    /\ call \in {[icon_paths |-> ip, desktop |-> d, requires |-> rq, macros |-> m] :
                    ip \in IconPathLists, d \in DesktopTexts \cup {NoDesktop},
                    rq \in RequiresLists, m \in RpmMacroTables}
    /\ ret = <<>>
    /\ SanIdle /\ IconIdle /\ TreeIdle /\ ExtractorIdle
    /\ args = EmptyDict /\ profile_manager = "DistroProfileManager" /\ profile = EmptyDict
    /\ metadata = EmptyDict /\ disk = {} /\ package_dependencies = <<>>
    /\ rpm_path = <<>> /\ result = EmptyDict /\ progress = <<>>
    /\ analyzer = EmptyDict /\ macros_file = <<>>

\* self.prepare_build_dir()
PrepareBuildDir ==
    /\ pc = "prepare"
    /\ ret' = [tree |-> InstalledTree(builder, call.icon_paths, call.desktop),
               icon_install_paths |-> IF call.icon_paths = <<>> THEN <<>>
                                      ELSE _copy_icons(builder, call.icon_paths),
               desktop |-> IF call.desktop = NoDesktop THEN NoDesktop
                           ELSE _update_desktop_file(builder, call.desktop)]
    /\ disk' = disk \cup {"rpm_build_dir"}
    /\ pc' = "prepared"
    /\ UNCHANGED <<call, raised, sanVars, iconVars, treeVars, extractor, args,
                   profile_manager, profile, metadata, package_dependencies, builder,
                   rpm_path, result, progress, analyzer, macros_file>>

\* self.create_spec_file(metadata)
CreateSpecFile ==
    /\ pc = "prepared"
    /\ ret' = [tree |-> ret.tree, icon_install_paths |-> ret.icon_install_paths,
               desktop |-> ret.desktop,
               spec |-> create_spec_file(builder, call.requires, ret.icon_install_paths)]
    /\ pc' = "spec_written"
    /\ UNCHANGED <<call, raised, sanVars, iconVars, treeVars, extractor, ctlVars>>

PackageNext == PrepareBuildDir \/ CreateSpecFile

SpecPackage == PackageInit /\ [][PackageNext]_vars

(***************************************************************************)
(* Claims about the build tree and the spec text (under SpecPackage).      *)
(***************************************************************************)
\* C22: the spec text has one Requires: line for each entry of
\* metadata['requires'], in the order of the list, each naming exactly that
\* package, and none when the list is empty.
C22_RequiresLinePerEntry ==
    pc = "spec_written" =>
        /\ Len(ret.spec.requires) = Len(call.requires)
        /\ \A i \in 1..Len(call.requires) :
              /\ StartsWith(ret.spec.requires[i], <<"R", "e", "q", "u", "i", "r", "e", "s", ":">>)
              /\ EndsWith(ret.spec.requires[i], <<" ">> \o call.requires[i])
              /\ \A j \in 1..Len(call.requires) :
                    j # i => ~EndsWith(ret.spec.requires[i], call.requires[j])

\* the paths %files names on the host
ListedPaths ==
    [i \in 1..Len(ret.spec.files) |-> ExpandFilesLine(ret.spec.files[i], call.macros)]

\* C23: %files lists every path of the installed tree exactly once and
\* lists no path the tree lacks, whatever the icon selection, also without
\* a desktop entry and with the payload under /usr/lib.
C23_ManifestMatchesTree ==
    pc = "spec_written" =>
        /\ \A p \in ret.tree :
              Cardinality({i \in 1..Len(ListedPaths) : ListedPaths[i] = p}) = 1
        /\ \A i \in 1..Len(ListedPaths) : ListedPaths[i] \in ret.tree

Reported(percent) == \E i \in 1..Len(progress) : progress[i] = percent

BuildStarted ==
    \/ "rpm_build_dir" \in disk
    \/ rpm_path # <<>>
    \/ builder # EmptyDict /\ builder.spec_file

C26_StageOrder ==
    [][ /\ pc \in {"icons", "dependencies"} => extractor.extracted_dir # <<>>
        /\ pc = "build" =>
               /\ "name" \in DOMAIN metadata
               /\ args.auto_deps => analyzer # EmptyDict
               /\ builder # EmptyDict
               /\ selected_icon = select_best_icon(icon_paths)
        /\ (pc = "publish" /\ raised' = "AttributeError") =>
               /\ args.repo_enabled
               /\ rpm_path # <<>>
        /\ (pc = "publish" /\ ~args.repo_enabled) => raised' = "none"
      ]_vars

\* the publishing stage has been tried, after a build that returned
C26_Witness ==
    /\ pc = "returned"
    /\ raised = "AttributeError"
    /\ args.repo_enabled
    /\ rpm_path # <<>>
    /\ analyzer # EmptyDict
    /\ icon_paths # <<>>

\* C28: the percentages of one run never decrease, and 100 is reported at
\* most once, as the last notification, and only by a successful run.
C28_ProgressMonotone ==
    /\ \A i, j \in 1..Len(progress) : i < j => progress[i] <= progress[j]
    /\ \A i \in 1..Len(progress) :
          progress[i] = 100 => /\ i = Len(progress)
                               /\ pc = "returned"
                               /\ result.success

\* ---------------------------------------------------------------------------
\* ConverterWidget and ConversionThread (gui/converter_widget.py)
\*
\* call is the widget, pc the position of every ConversionThread, args the
\* arguments each thread was constructed with, ret the slot calls posted to
\* the GUI thread's event loop (signals emitted in the worker thread reach the
\* widget's slots through queued connections), disk the temporary directories.
\* ---------------------------------------------------------------------------

\* how many ConversionThread objects one session creates
MaxRuns == 2

\* how many slot calls can wait in the event loop: a worker that finds the
\* queue full takes its next step after a delivery
MaxPosted == 3

Runs == 1..MaxRuns

\* what each browse dialog can return
AppImageFile == "/home/u/App-1.0-x86_64.AppImage"

AppDirectory == "/home/u/appdir"

\* QThread.isRunning()
isRunning(position) ==
    position \in {"started", "extracted", "prepared", "built", "failed", "emitted"}

\* __init__ and setup_ui (lines 121-240)
NewWidget ==
    [file_edit |-> "", output_edit |-> "", name_edit |-> "", version_edit |-> "",
     is_directory_mode |-> FALSE, convert_button |-> FALSE, cancel_button |-> FALSE,
     progress_bar |-> 0, progress_label |-> "", conversion_thread |-> 0,
     alive |-> TRUE]

\* file_path_changed (lines 323-368), for the two names the dialogs return:
\* "App-1.0-x86_64" gives name "app" and version "1.0", a directory gives its
\* own name and no version
file_path_changed(w) ==
    IF w.file_edit = ""
    THEN [w EXCEPT !.convert_button = FALSE]
    ELSE [w EXCEPT !.convert_button = TRUE,
                   !.output_edit = IF w.output_edit = "" THEN "/home/u" ELSE w.output_edit,
                   !.name_edit = IF w.name_edit = "" THEN "app" ELSE w.name_edit,
                   !.version_edit = IF ~w.is_directory_mode /\ w.version_edit = ""
                                    THEN "1.0" ELSE w.version_edit]

\* validate_inputs (lines 370-400): TRUE when it returns None; the paths the
\* dialogs return exist
validate_inputs(w) ==
    /\ w.file_edit # ""
    /\ w.output_edit # ""
    /\ w.name_edit # ""
    /\ w.version_edit # ""

\* a slot call posted by a signal of thread t
PostedCall(t, signal, percent, success, message) ==
    [thread |-> t, signal |-> signal, percent |-> percent, success |-> success,
     message |-> message]

\* update_progress (lines 473-483)
update_progress(w, percent, message) ==
    [w EXCEPT !.progress_bar = percent, !.progress_label = message]

\* on_conversion_finished (lines 485-515)
on_conversion_finished(w, success, message) ==
    [w EXCEPT !.progress_label = message,
              !.convert_button = TRUE,
              !.cancel_button = FALSE,
              !.progress_bar = IF success THEN 100 ELSE 0]

WidgetIdle ==
    /\ raised = "none"
    /\ SanIdle /\ IconIdle /\ TreeIdle /\ ExtractorIdle
    /\ profile_manager = "DistroProfileManager" /\ profile = EmptyDict
    /\ metadata = EmptyDict /\ package_dependencies = <<>>
    /\ builder = EmptyDict /\ rpm_path = <<>> /\ result = EmptyDict /\ progress = <<>>
    /\ analyzer = EmptyDict /\ macros_file = <<>>

WidgetInit ==
    /\ call = NewWidget
    /\ pc = [t \in Runs |-> "unstarted"]
    /\ args = [t \in Runs |-> [is_directory |-> FALSE]]
    /\ ret = <<>>
    /\ disk = {}
    /\ WidgetIdle

WidgetUnchanged ==
    UNCHANGED <<raised, sanVars, iconVars, treeVars, extractor, profile_manager, profile,
                metadata, package_dependencies, builder, rpm_path, result, progress,
                analyzer, macros_file>>

\* browse_appimage (lines 270-292) with a selection made in the dialog
BrowseAppimage ==
    /\ call.alive
    /\ LET chosen == IF call.is_directory_mode THEN AppDirectory ELSE AppImageFile
       IN  call' = file_path_changed([call EXCEPT !.file_edit = chosen])
    /\ UNCHANGED <<pc, args, ret, disk>>
    /\ WidgetUnchanged

\* toggle_directory_mode (lines 305-321): clears the path, calls nothing else
ToggleDirectoryMode ==
    /\ call.alive
    /\ call' = [call EXCEPT !.is_directory_mode = ~call.is_directory_mode,
                            !.file_edit = ""]
    /\ UNCHANGED <<pc, args, ret, disk>>
    /\ WidgetUnchanged

\* the user clears the version field; no slot is connected to the edit
EditFields ==
    /\ call.alive
    /\ call.version_edit # ""
    /\ call' = [call EXCEPT !.version_edit = ""]
    /\ UNCHANGED <<pc, args, ret, disk>>
    /\ WidgetUnchanged

\* start_conversion (lines 419-456), run by a click on the enabled Convert
\* button.  Assigning conversion_thread drops the only reference to the
\* previous ConversionThread: when that thread still runs, destroying it
\* either aborts the process or leaves the thread running.
StartConversion ==
    /\ call.alive
    /\ call.convert_button
    /\ validate_inputs(call)
    /\ \E t \in Runs :
          /\ pc[t] = "unstarted"
          /\ \A u \in Runs : u < t => pc[u] # "unstarted"
          /\ \/ /\ call' = [call EXCEPT !.progress_bar = 0,
                                        !.progress_label = "Starting conversion...",
                                        !.convert_button = FALSE,
                                        !.cancel_button = TRUE,
                                        !.conversion_thread = t]
                /\ pc' = [pc EXCEPT ![t] = "started"]
                /\ args' = [args EXCEPT ![t] = [is_directory |-> call.is_directory_mode]]
             \/ /\ call.conversion_thread # 0
                /\ isRunning(pc[call.conversion_thread])
                /\ call' = [call EXCEPT !.progress_bar = 0,
                                        !.progress_label = "Starting conversion...",
                                        !.convert_button = FALSE,
                                        !.cancel_button = TRUE,
                                        !.conversion_thread = t,
                                        !.alive = FALSE]
                /\ UNCHANGED <<pc, args>>
    /\ UNCHANGED <<ret, disk>>
    /\ WidgetUnchanged

\* cancel_conversion (lines 458-471), run by a click on the enabled Cancel
\* button: terminate() stops the thread where it is, wait() returns after that
CancelConversion ==
    /\ call.alive
    /\ call.cancel_button
    /\ IF call.conversion_thread # 0 /\ isRunning(pc[call.conversion_thread])
       THEN /\ pc' = [pc EXCEPT ![call.conversion_thread] = "terminated"]
            /\ call' = [call EXCEPT !.progress_bar = 0,
                                    !.progress_label = "Conversion cancelled",
                                    !.convert_button = TRUE,
                                    !.cancel_button = FALSE]
       ELSE UNCHANGED <<pc, call>>
    /\ UNCHANGED <<args, ret, disk>>
    /\ WidgetUnchanged

\* ConversionThread.run into convert_appimage up to the extraction
\* (controller.py 97-163): the notification of the stage is posted, the
\* extractor makes its temporary directory unless the input is a directory
WorkerExtract(t) ==
    /\ call.alive
    /\ pc[t] = "started"
    /\ Len(ret) < MaxPosted
    /\ \/ /\ pc' = [pc EXCEPT ![t] = "extracted"]
          /\ disk' = IF args[t].is_directory THEN disk ELSE disk \cup {<<t, "temp_dir">>}
          /\ ret' = Append(ret, PostedCall(t, "progress_update", 20, FALSE,
                                           IF args[t].is_directory
                                           THEN "Processing directory..."
                                           ELSE "Extracting AppImage..."))
       \/ /\ ~args[t].is_directory
          /\ pc' = [pc EXCEPT ![t] = "failed"]
          /\ disk' = disk \cup {<<t, "temp_dir">>}
          /\ ret' = Append(ret, PostedCall(t, "progress_update", 20, FALSE,
                                           "Extracting AppImage..."))
    /\ UNCHANGED <<call, args>>
    /\ WidgetUnchanged

\* controller.py 165-212 and prepare_build_dir (builder.py 144-255)
WorkerPrepare(t) ==
    /\ call.alive
    /\ pc[t] = "extracted"
    /\ Len(ret) < MaxPosted
    /\ pc' = [pc EXCEPT ![t] = "prepared"]
    /\ disk' = disk \cup {<<t, "rpm_build_dir">>}
    /\ ret' = Append(ret, PostedCall(t, "progress_update", 70, FALSE,
                                     "Building RPM package..."))
    /\ UNCHANGED <<call, args>>
    /\ WidgetUnchanged

\* the rest of RPMBuilder.build (builder.py 448-523) with its finally, then
\* controller.py 217-245
WorkerBuild(t) ==
    /\ call.alive
    /\ pc[t] = "prepared"
    /\ Len(ret) < MaxPosted
    /\ disk' = disk \ {<<t, "rpm_build_dir">>}
    /\ \/ /\ pc' = [pc EXCEPT ![t] = "built"]
          /\ ret' = Append(ret, PostedCall(t, "progress_update", 100, FALSE,
                                           "Conversion complete!"))
       \/ /\ pc' = [pc EXCEPT ![t] = "failed"]
          /\ UNCHANGED ret
    /\ UNCHANGED <<call, args>>
    /\ WidgetUnchanged

\* ConversionThread.run lines 96-107
WorkerEmitFinished(t) ==
    /\ call.alive
    /\ pc[t] \in {"built", "failed"}
    /\ Len(ret) < MaxPosted
    /\ pc' = [pc EXCEPT ![t] = "emitted"]
    /\ ret' = Append(ret, IF pc[t] = "built"
                          THEN PostedCall(t, "conversion_finished", 0, TRUE,
                                          "Conversion completed successfully")
                          ELSE PostedCall(t, "conversion_finished", 0, FALSE,
                                          "Conversion failed"))
    /\ UNCHANGED <<call, args, disk>>
    /\ WidgetUnchanged

\* run returns
WorkerExit(t) ==
    /\ call.alive
    /\ pc[t] = "emitted"
    /\ pc' = [pc EXCEPT ![t] = "finished"]
    /\ UNCHANGED <<call, args, ret, disk>>
    /\ WidgetUnchanged

\* the event loop runs the oldest posted slot call
DeliverPosted ==
    /\ call.alive
    /\ ret # <<>>
    /\ call' = IF Head(ret).signal = "progress_update"
               THEN update_progress(call, Head(ret).percent, Head(ret).message)
               ELSE on_conversion_finished(call, Head(ret).success, Head(ret).message)
    /\ ret' = Tail(ret)
    /\ UNCHANGED <<pc, args, disk>>
    /\ WidgetUnchanged

WidgetNext ==
    \/ BrowseAppimage
    \/ ToggleDirectoryMode
    \/ EditFields
    \/ StartConversion
    \/ CancelConversion
    \/ \E t \in Runs : WorkerExtract(t)
    \/ \E t \in Runs : WorkerPrepare(t)
    \/ \E t \in Runs : WorkerBuild(t)
    \/ \E t \in Runs : WorkerEmitFinished(t)
    \/ \E t \in Runs : WorkerExit(t)
    \/ DeliverPosted

SpecWidget == WidgetInit /\ [][WidgetNext]_vars

\* the temporary directories a run has made that are still on disk
DirsOf(t) == {d \in {"temp_dir", "rpm_build_dir"} : <<t, d>> \in disk}

\* C27: once cancel_conversion has terminated a running ConversionThread,
\* none of the temporary extraction and build directories made by that run
\* is left on disk.
C27_CancelCleansUp ==
    \A t \in Runs : pc[t] = "terminated" => DirsOf(t) = {}

\* C29: while a ConversionThread is running, the Convert button is disabled
\* whatever the user does, so no second thread runs beside the first and
\* conversion_thread keeps naming the running one.
C29_OneConversionAtATime ==
    call.alive =>
        \A t \in Runs :
            isRunning(pc[t]) => /\ ~call.convert_button
                                /\ call.conversion_thread = t
                                /\ \A u \in Runs : isRunning(pc[u]) => u = t

\* C30: after cancel_conversion has returned for a run, no posted
\* update_progress or on_conversion_finished call of that run is executed.
C30_NoDeliveryAfterCancel ==
    [][(ret # <<>> /\ ret' = Tail(ret)) => pc[Head(ret).thread] # "terminated"]_vars

====
